---- MODULE Spec2Model ----
(***************************************************************************)
(* A model of px-fio-parsing/parse_fio.py: the fio result extractor        *)
(* (structured and text), the percentile resolver, the file dispatcher,    *)
(* the task-order sort and the per-task rollup of export_to_excel.         *)
(*                                                                         *)
(* Python values are modelled as follows.                                  *)
(*   - None / NaN / a missing key: the record None.                        *)
(*   - a present value x: the record Some(x).                              *)
(*   - a str: a sequence of one-character strings, compared by code point. *)
(*   - a float: an exact rational [n, d] in lowest terms (rounding of      *)
(*     binary floating point is not modelled).                             *)
(***************************************************************************)
EXTENDS Integers, Sequences, FiniteSets, TLC

VARIABLES
    task_col,     \* the task column of a rollup table before it is sorted
    sorted_col,   \* the column as _sort_df_by_task_order returns it
    sort_pc,      \* "idle" | "call" | "done"
    detailed_col, \* the column as the sort of summary_detailed leaves it
    detailed_pc   \* "idle" | "call" | "done"

sortVars == <<task_col, sorted_col, sort_pc, detailed_col, detailed_pc>>

VARIABLES
    percentiles,  \* _find_percentile_key: the mapping label -> value
    target,       \* _find_percentile_key: the target percentile (99 is 99.0)
    found_key,    \* _find_percentile_key: the key returned, or None
    pct_pc        \* "idle" | "call" | "done"

pctVars == <<percentiles, target, found_key, pct_pc>>

VARIABLES
    file_path,    \* parse_file: the path, [root |-> segments, rel |-> segments]
    file_content, \* parse_file: the content of the file
    file_rows,    \* parse_file: the rows returned
    text_result,  \* parse_file: what its call of parse_fio_text gave, or None
    file_stderr,  \* parse_file: the number of diagnostics written to stderr
    file_pc       \* "idle" | "call" | "done"

fileVars == <<file_path, file_content, file_rows, text_result, file_stderr, file_pc>>

VARIABLES
    df,           \* main: the rows collected for rows_to_dataframe, as a set
    summary,      \* export_to_excel: the rows of the summary sheet, in order
    agg_pc        \* "idle" | "collect" | "done"

aggVars == <<df, summary, agg_pc>>

VARIABLES
    size_value,   \* the size option of a job: None or a JSON string
    parsed_bytes, \* what _parse_size_to_bytes returns for it
    size_bytes,   \* the size_bytes parse_fio_json puts in the rows of the job
    size_pc       \* "idle" | "call" | "done"

sizeVars == <<size_value, parsed_bytes, size_bytes, size_pc>>

VARIABLES
    name_path,      \* the path of a file, [root |-> segments, rel |-> segments]
    name_task,      \* compute_task_name of it
    name_runner,    \* compute_runner_name of it
    name_timestamp, \* compute_timestamp_from_path of it
    name_pc         \* "idle" | "call" | "done"

nameVars == <<name_path, name_task, name_runner, name_timestamp, name_pc>>

VARIABLES
    unit_ns,      \* the argument of a call of _ns_to_ms
    unit_us,      \* the argument of a call of _us_to_ms
    unit_kbps,    \* the argument of a call of _kbps_to_MBps
    ns_ms,        \* what _ns_to_ms returned
    us_ms,        \* what _us_to_ms returned
    kbps_MBps,    \* what _kbps_to_MBps returned
    unit_done     \* the converters that have been called ({"idle"}: none can be)

unitVars == <<unit_ns, unit_us, unit_kbps, ns_ms, us_ms, kbps_MBps, unit_done>>

VARIABLES
    input_isdir,  \* main: os.path.isdir(input_dir)
    main_files,   \* main: list(iter_files(...)), each [path, content]
    main_next,    \* main: the index in main_files of the next file of the loop
    all_rows,     \* main: the list all_rows
    main_stderr,  \* main: the number of diagnostics written to stderr
    main_df,      \* main: the table handed to export_to_excel, None before
    workbook,     \* what export_to_excel wrote, None before
    exit_status,  \* the value main returns, None while it runs
    main_pc       \* "idle" | "start" | "parse" | "export" | "done"

mainVars == <<input_isdir, main_files, main_next, all_rows, main_stderr,
              main_df, workbook, exit_status, main_pc>>

VARIABLES
    pass_df,        \* the table of the caller of export_to_excel, as a set
    remove_suffix,  \* the argument remove_suffix of the calls
    detailed_sheets, \* the argument detailed_sheets of the calls
    pass_summaries, \* what each call made so far wrote, in order
    pass_pc         \* "idle" | "run"

passVars == <<pass_df, remove_suffix, detailed_sheets, pass_summaries, pass_pc>>

VARIABLES
    sheet_used,     \* the registry: the keys of the dict used (each value is 1)
    sheet_returned, \* the names returned by the calls made so far, in order
    sheet_base,     \* sanitize_sheet_name: base, in a call that is in its loop
    sheet_idx,      \* sanitize_sheet_name: idx
    sheet_pc        \* "idle" | "ready" | "loop"

sheetVars == <<sheet_used, sheet_returned, sheet_base, sheet_idx, sheet_pc>>

vars == <<sortVars, pctVars, fileVars, aggVars, sizeVars, nameVars,
          unitVars, mainVars, passVars, sheetVars>>

(***************************************************************************)
(* Optional values                                                         *)
(***************************************************************************)
None == [none |-> TRUE]

Some(x) == [some |-> x]

IsNone(o) == o = None

IsSome(o) == "some" \in DOMAIN o

(***************************************************************************)
(* Strings                                                                 *)
(***************************************************************************)
\* The characters the modelled strings use, in code-point order.
Alphabet == <<" ", "-", ".", "/", "0", "1", "2", "3", "4", "5", "6", "7", "8", "9",
              "B", "G", "K", "M", "P", "T", "Z", "_",
              "a", "b", "c", "d", "e", "f", "g", "h", "i", "j", "k", "l", "m",
              "n", "o", "p", "q", "r", "s", "t", "u", "v", "w", "x", "y", "z">>

Ord(c) == CHOOSE i \in 1..Len(Alphabet) : Alphabet[i] = c

Digits == <<"0", "1", "2", "3", "4", "5", "6", "7", "8", "9">>

IsDigit(c) == \E i \in 1..Len(Digits) : Digits[i] = c

DigitVal(c) == (CHOOSE i \in 1..Len(Digits) : Digits[i] = c) - 1

\* Python's str < str: lexicographic by code point, a proper prefix first.
RECURSIVE StrLess(_, _)
StrLess(a, b) ==
    IF b = <<>> THEN FALSE
    ELSE IF a = <<>> THEN TRUE
    ELSE IF Head(a) = Head(b) THEN StrLess(Tail(a), Tail(b))
    ELSE Ord(Head(a)) < Ord(Head(b))

\* int() of a string of decimal digits.
RECURSIVE IntOfDigits(_)
IntOfDigits(s) ==
    IF s = <<>> THEN 0
    ELSE 10 * IntOfDigits(SubSeq(s, 1, Len(s) - 1)) + DigitVal(s[Len(s)])

\* The longest run of digits of s that starts at position i (regex \d+, greedy).
RECURSIVE DigitRun(_, _)
DigitRun(s, i) ==
    IF i > Len(s) \/ ~IsDigit(s[i]) THEN <<>>
    ELSE <<s[i]>> \o DigitRun(s, i + 1)

ParallelDash == <<"p", "a", "r", "a", "l", "l", "e", "l", "-">>

\* str.lower() on the characters of the alphabet.
LowerChar(c) ==
    CASE c = "B" -> "b" [] c = "G" -> "g" [] c = "K" -> "k" [] c = "M" -> "m"
      [] c = "P" -> "p" [] c = "T" -> "t" [] c = "Z" -> "z" [] OTHER -> c

Lower(s) == [i \in 1..Len(s) |-> LowerChar(s[i])]

\* str.strip(): leading and trailing blanks removed.
RECURSIVE Strip(_)
Strip(s) ==
    IF s = <<>> THEN s
    ELSE IF Head(s) = " " THEN Strip(Tail(s))
    ELSE IF s[Len(s)] = " " THEN Strip(SubSeq(s, 1, Len(s) - 1))
    ELSE s

StartsWith(s, prefix) ==
    Len(prefix) <= Len(s) /\ SubSeq(s, 1, Len(prefix)) = prefix

\* str() of a non-negative int.
RECURSIVE StrOfInt(_)
StrOfInt(n) ==
    IF n < 10 THEN <<Digits[n + 1]>>
    ELSE StrOfInt(n \div 10) \o <<Digits[(n % 10) + 1]>>

AllDigits(s) == \A i \in 1..Len(s) : IsDigit(s[i])

(***************************************************************************)
(* Floats, as exact rationals                                              *)
(***************************************************************************)
Abs(x) == IF x < 0 THEN -x ELSE x

RECURSIVE GCD(_, _)
GCD(a, b) == IF b = 0 THEN a ELSE GCD(b, a % b)

\* The rational n/d (d > 0) in lowest terms.
Rat(n, d) ==
    LET g == GCD(Abs(n), d)
    IN  IF g = 0 THEN [n |-> 0, d |-> 1] ELSE [n |-> n \div g, d |-> d \div g]

RInt(i) == [n |-> i, d |-> 1]

RAdd(a, b) == Rat(a.n * b.d + b.n * a.d, a.d * b.d)

RSub(a, b) == Rat(a.n * b.d - b.n * a.d, a.d * b.d)

RMul(a, b) == Rat(a.n * b.n, a.d * b.d)

\* a / k for an integer k > 0.
RDivInt(a, k) == Rat(a.n, a.d * k)

RAbs(a) == [n |-> Abs(a.n), d |-> a.d]

RLess(a, b) == a.n * b.d < b.n * a.d

RLeq(a, b) == a.n * b.d <= b.n * a.d

\* float(s) for the decimal notations digits, digits.digits, digits. and
\* .digits; any other string of the alphabet raises ValueError (None).
ParseFloat(s) ==
    LET dots == {i \in 1..Len(s) : s[i] = "."}
    IN  IF s = <<>> THEN None
        ELSE IF dots = {} THEN
            IF AllDigits(s) THEN Some(RInt(IntOfDigits(s))) ELSE None
        ELSE IF Cardinality(dots) > 1 THEN None
        ELSE LET p    == CHOOSE i \in dots : TRUE
                 ip   == SubSeq(s, 1, p - 1)
                 fp   == SubSeq(s, p + 1, Len(s))
             IN  IF AllDigits(ip) /\ AllDigits(fp) /\ Len(ip) + Len(fp) > 0
                 THEN Some(Rat(IntOfDigits(ip \o fp), 10^Len(fp)))
                 ELSE None

(***************************************************************************)
(* JSON documents and Python exceptions                                    *)
(*                                                                         *)
(* A JSON value is None (null), [num |-> n], [str |-> s], [list |-> seq]   *)
(* or [dict |-> f].  A call that raises yields [exc |-> name].             *)
(***************************************************************************)
JNum(n) == [num |-> n]

JStr(s) == [str |-> s]

JList(q) == [list |-> q]

JDict(f) == [dict |-> f]

IsNum(v) == "num" \in DOMAIN v

IsStr(v) == "str" \in DOMAIN v

IsList(v) == "list" \in DOMAIN v

IsDict(v) == "dict" \in DOMAIN v

Raise(name) == [exc |-> name]

Raised(r) == "exc" \in DOMAIN r

\* Python truthiness: None, 0, "", [] and {} are false.
Truthy(v) ==
    /\ ~IsNone(v)
    /\ IsNum(v) => v.num # 0
    /\ IsStr(v) => v.str # <<>>
    /\ IsList(v) => v.list # <<>>
    /\ IsDict(v) => DOMAIN v.dict # {}

\* key in d, for a dict d.
HasKey(d, key) == key \in DOMAIN d.dict

\* d.get(key), for a dict d.
Get(d, key) == IF HasKey(d, key) THEN d.dict[key] ELSE None

\* a or b
Or(a, b) == IF Truthy(a) THEN a ELSE b

(***************************************************************************)
(* Helpers and data models                                                 *)
(***************************************************************************)
\* The fields of the ParsedRow dataclass; none has a default.
ParsedRowFields ==
    {"source_file", "task", "timestamp", "runner", "jobname", "rw",
     "access_pattern", "bs", "bs_bytes", "iodepth", "numjobs", "runtime_s",
     "size_bytes", "op", "iops", "bw_MBps", "lat_mean_ms", "clat_p99_ms",
     "clat_p95_ms", "clat_p50_ms", "total_ios"}

\* ParsedRow(**kwargs): the generated __init__ requires every field.
ParsedRow(kwargs) ==
    IF DOMAIN kwargs = ParsedRowFields THEN kwargs ELSE Raise("TypeError")

\* _to_float: float(value), None when value is None or float() raises.
_to_float(value) ==
    IF IsNone(value) THEN None
    ELSE IF IsNum(value) THEN Some(RInt(value.num))
    ELSE IF IsStr(value) THEN ParseFloat(Strip(value.str))
    ELSE None

\* _to_int: int(value), else int(float(str(value))), else None.
_to_int(value) ==
    IF IsNone(value) THEN None
    ELSE IF IsNum(value) THEN Some(value.num)
    ELSE IF IsStr(value) THEN
        LET t == Strip(value.str)
            f == ParseFloat(t)
        IN  IF t # <<>> /\ AllDigits(t) THEN Some(IntOfDigits(t))
            ELSE IF IsSome(f) THEN Some(f.some.n \div f.some.d)
            ELSE None
    ELSE None

\* _ns_to_ms on an optional float.
_ns_to_ms(ns_value) ==
    IF IsNone(ns_value) THEN None ELSE Some(RDivInt(ns_value.some, 1000000))

\* _us_to_ms with the divisor of _ns_to_ms.
_us_to_ms_Micro(us_value) ==
    IF IsNone(us_value) THEN None ELSE Some(RDivInt(us_value.some, 1000000))

\* _us_to_ms on an optional float.
_us_to_ms(us_value) ==
    IF IsNone(us_value) THEN None ELSE Some(RDivInt(us_value.some, 1000))

\* _kbps_to_MBps on an optional float.
_kbps_to_MBps(kb_per_s) ==
    IF IsNone(kb_per_s) THEN None
    ELSE Some(RDivInt(RMul(kb_per_s.some, RInt(1024)), 1000000))

\* The exponent of the unit letter of a size.
SizePower(unit) ==
    CASE unit = "k" -> 10 [] unit = "m" -> 20 [] unit = "g" -> 30
      [] unit = "t" -> 40 [] unit = "p" -> 50 [] OTHER -> 0

\* num * (1 << power), kept as the pair [num, power]; None when int() raises.
SizeOfParts(num, unit) ==
    IF num # <<>> /\ AllDigits(num)
    THEN Some([num |-> IntOfDigits(num), power |-> SizePower(unit)])
    ELSE None

\* The optional unit letter: last is the lowercased last character.
SizeOfUnit(noB, last) ==
    IF last \in {"k", "m", "g", "t", "p"}
    THEN SizeOfParts(SubSeq(noB, 1, Len(noB) - 1), last)
    ELSE SizeOfParts(noB, "")

\* The optional trailing B or b of the stripped string t.
SizeOfText(t) ==
    IF t # <<>> /\ LowerChar(t[Len(t)]) = "b"
    THEN SizeOfUnit(SubSeq(t, 1, Len(t) - 1),
                    IF Len(t) = 1 THEN " " ELSE LowerChar(t[Len(t) - 1]))
    ELSE SizeOfUnit(t, IF t = <<>> THEN " " ELSE LowerChar(t[Len(t)]))

\* _parse_size_to_bytes on an optional JSON value: ^(\d+)([KkMmGgTtPp]?)[Bb]?$
\* on the stripped string, else int(value), else None.
_parse_size_to_bytes(value) ==
    IF ~Truthy(value) THEN None
    ELSE IF ~IsStr(value) THEN None
    ELSE SizeOfText(Strip(value.str))

\* _parse_bs_to_bytes: an alias of the size parser.
_parse_bs_to_bytes(value) == _parse_size_to_bytes(value)

StrRand == <<"r", "a", "n", "d">>

SequentialModes ==
    {<<"r", "e", "a", "d">>, <<"w", "r", "i", "t", "e">>, <<"r", "w">>,
     <<"r", "e", "a", "d", "w", "r", "i", "t", "e">>}

\* _normalize_access_pattern on an optional JSON value.
_normalize_access_pattern(rw) ==
    IF ~Truthy(rw) THEN None
    ELSE LET rw_l == IF IsStr(rw) THEN Lower(rw.str)
                     ELSE IF IsNum(rw) THEN StrOfInt(rw.num)
                     ELSE <<>>
         IN  IF StartsWith(rw_l, StrRand) THEN Some("random")
             ELSE IF rw_l \in SequentialModes THEN Some("sequential")
             ELSE None

(***************************************************************************)
(* Percentile resolver                                                     *)
(***************************************************************************)
\* str(target) of a float with an integral value: "99.0".
StrOfFloat(t) == StrOfInt(t) \o <<".", "0">>

\* f"{target:.6f}" of a float with an integral value: "99.000000".
Format6(t) == StrOfInt(t) \o <<".", "0", "0", "0", "0", "0", "0">>

\* as_pairs: the (distance, key) pairs of the keys float() accepts.
AsPairs(pcts, t) ==
    {<<RAbs(RSub(ParseFloat(k).some, RInt(t))), k>> :
        k \in {x \in DOMAIN pcts : IsSome(ParseFloat(x))}}

\* Tuple order of as_pairs.sort(): by distance, then by key.
PairLess(a, b) == RLess(a[1], b[1]) \/ (a[1] = b[1] /\ StrLess(a[2], b[2]))

\* _find_percentile_key with the two exact steps in the other order.
_find_percentile_key_FormattedFirst(pcts, t) ==
    IF Format6(t) \in DOMAIN pcts THEN Some(Format6(t))
    ELSE IF StrOfFloat(t) \in DOMAIN pcts THEN Some(StrOfFloat(t))
    ELSE LET as_pairs == AsPairs(pcts, t)
         IN  IF as_pairs = {} THEN None
             ELSE Some((CHOOSE a \in as_pairs : \A b \in as_pairs : a = b \/ PairLess(a, b))[2])

\* _find_percentile_key without the nearest-key step: the two exact steps only.
_find_percentile_key_ExactOnly(pcts, t) ==
    IF StrOfFloat(t) \in DOMAIN pcts THEN Some(StrOfFloat(t))
    ELSE IF Format6(t) \in DOMAIN pcts THEN Some(Format6(t))
    ELSE None

\* _find_percentile_key(percentiles, target).
_find_percentile_key(pcts, t) ==
    IF StrOfFloat(t) \in DOMAIN pcts THEN Some(StrOfFloat(t))
    ELSE IF Format6(t) \in DOMAIN pcts THEN Some(Format6(t))
    ELSE LET as_pairs == AsPairs(pcts, t)
         IN  IF as_pairs = {} THEN None
             ELSE Some((CHOOSE a \in as_pairs : \A b \in as_pairs : a = b \/ PairLess(a, b))[2])

(***************************************************************************)
(* Naming conventions of the file path                                     *)
(*                                                                         *)
(* A path is [root |-> segments, rel |-> segments]: the scan root and the  *)
(* path relative to it, each split at os.sep.                              *)
(***************************************************************************)
IsLetter(c) == LowerChar(c) \in
    {"a", "b", "c", "d", "e", "f", "g", "h", "i", "j", "k", "l", "m",
     "n", "o", "p", "q", "r", "s", "t", "u", "v", "w", "x", "y", "z"}

RECURSIVE LetterRun(_, _)
LetterRun(s, i) ==
    IF i > Len(s) \/ ~IsLetter(s[i]) THEN <<>>
    ELSE <<s[i]>> \o LetterRun(s, i + 1)

\* _RE_TASK = ^parallel-\d+-[a-z]+- (IGNORECASE) matches the segment.
TaskMatch(part) ==
    LET l  == Lower(part)
        d  == DigitRun(l, Len(ParallelDash) + 1)
        p1 == Len(ParallelDash) + Len(d) + 1
        w  == LetterRun(l, p1 + 1)
        p2 == p1 + Len(w) + 1
    IN  /\ StartsWith(l, ParallelDash)
        /\ d # <<>>
        /\ p1 <= Len(l) /\ l[p1] = "-"
        /\ w # <<>>
        /\ p2 <= Len(l) /\ l[p2] = "-"

\* compute_task_name whose fallback takes the first segment of any path.
compute_task_name_FirstSegment(path) ==
    LET path_parts == path.rel
        hits  == {i \in 1..Len(path_parts) : TaskMatch(path_parts[i])}
    IN  IF hits # {} THEN Some(path_parts[CHOOSE i \in hits : \A j \in hits : i <= j])
        ELSE IF Len(path_parts) > 0 THEN Some(path_parts[1])
        ELSE None

\* compute_task_name(path, input_root).
compute_task_name(path) ==
    LET path_parts == path.rel
        hits  == {i \in 1..Len(path_parts) : TaskMatch(path_parts[i])}
    IN  IF hits # {} THEN Some(path_parts[CHOOSE i \in hits : \A j \in hits : i <= j])
        ELSE IF Len(path_parts) > 1 THEN Some(path_parts[1])
        ELSE None

FioRunnerDash == <<"f", "i", "o", "-", "r", "u", "n", "n", "e", "r", "-">>

\* _RE_RUNNER = ^fio-runner-[a-z0-9]+$ (IGNORECASE) matches the segment.
RunnerMatch(part) ==
    LET l == Lower(part)
    IN  /\ StartsWith(l, FioRunnerDash)
        /\ Len(l) > Len(FioRunnerDash)
        /\ \A i \in (Len(FioRunnerDash) + 1)..Len(l) : IsDigit(l[i]) \/ IsLetter(l[i])

\* compute_runner_name with a fallback by position, as the task has.
compute_runner_name_Positional(path) ==
    LET path_parts == path.rel
        hits  == {i \in 1..Len(path_parts) : RunnerMatch(path_parts[i])}
    IN  IF hits # {} THEN Some(path_parts[CHOOSE i \in hits : \A j \in hits : i <= j])
        ELSE IF Len(path_parts) > 1 THEN Some(path_parts[1])
        ELSE None

\* compute_runner_name(path, input_root).
compute_runner_name(path) ==
    LET path_parts == path.rel
        hits  == {i \in 1..Len(path_parts) : RunnerMatch(path_parts[i])}
    IN  IF hits # {} THEN Some(path_parts[CHOOSE i \in hits : \A j \in hits : i <= j])
        ELSE None

\* _RE_TIMESTAMP = (20\d{6}T\d{6}Z) matches seg at position i.
TimestampAt(seg, i) ==
    /\ i + 15 <= Len(seg)
    /\ seg[i] = "2" /\ seg[i + 1] = "0"
    /\ \A k \in (i + 2)..(i + 7) : IsDigit(seg[k])
    /\ seg[i + 8] = "T"
    /\ \A k \in (i + 9)..(i + 14) : IsDigit(seg[k])
    /\ seg[i + 15] = "Z"

\* datetime.strptime(ts, "%Y%m%dT%H%M%SZ") accepts the fields (the length of
\* the month is not modelled).
ValidTimestamp(ts) ==
    LET month == IntOfDigits(SubSeq(ts, 5, 6))
        day   == IntOfDigits(SubSeq(ts, 7, 8))
        hour  == IntOfDigits(SubSeq(ts, 10, 11))
        min   == IntOfDigits(SubSeq(ts, 12, 13))
        sec   == IntOfDigits(SubSeq(ts, 14, 15))
    IN  month \in 1..12 /\ day \in 1..31 /\ hour \in 0..23 /\ min \in 0..59 /\ sec \in 0..61

TimestampOf(ts) == IF ValidTimestamp(ts) THEN Some(ts) ELSE None

FirstTimestamp(segs, h) == TimestampOf(SubSeq(segs[h[1]], h[2], h[2] + 15))

TimestampIn(segs, hits) ==
    IF hits = {} THEN None
    ELSE FirstTimestamp(segs, CHOOSE a \in hits :
                                  \A b \in hits : a[1] < b[1] \/ (a[1] = b[1] /\ a[2] <= b[2]))

TimestampHits(segs) ==
    {<<k, i>> \in (1..Len(segs)) \X (1..40) : i <= Len(segs[k]) /\ TimestampAt(segs[k], i)}

\* compute_timestamp_from_path(path): the first match in the whole path.
compute_timestamp_from_path(path) ==
    TimestampIn(path.root \o path.rel, TimestampHits(path.root \o path.rel))

Basename(path) == IF path.rel = <<>> THEN <<>> ELSE path.rel[Len(path.rel)]

(***************************************************************************)
(* JSON parser                                                             *)
(***************************************************************************)
\* The container that supplies lat_mean_ms: the if/elif chain over clat_ns,
\* clat_us, clat, lat_ns, lat_us, lat; "" when none qualifies.
LatMeanOrder == <<"clat_ns", "clat_us", "clat", "lat_ns", "lat_us", "lat">>

HasMean(op_data, name) ==
    IsDict(Get(op_data, name)) /\ HasKey(Get(op_data, name), "mean")

\* The chain taken from its end: the last container that qualifies.
MeanContainer_Last(op_data) ==
    LET ok == {i \in 1..Len(LatMeanOrder) : HasMean(op_data, LatMeanOrder[i])}
    IN  IF ok = {} THEN "" ELSE LatMeanOrder[CHOOSE i \in ok : \A j \in ok : i >= j]

MeanContainer(op_data) ==
    LET ok == {i \in 1..Len(LatMeanOrder) : HasMean(op_data, LatMeanOrder[i])}
    IN  IF ok = {} THEN "" ELSE LatMeanOrder[CHOOSE i \in ok : \A j \in ok : i <= j]

\* The conversion the chain applies to a container: nanoseconds for the _ns
\* containers, microseconds for the others.
ToMs(name, value) ==
    IF name \in {"clat_ns", "lat_ns"} THEN _ns_to_ms(value) ELSE _us_to_ms(value)

MeanOf(op_data, c) ==
    IF c = "" THEN None ELSE ToMs(c, _to_float(Get(Get(op_data, c), "mean")))

LatMeanMs(op_data) == MeanOf(op_data, MeanContainer(op_data))

\* The container handed to _extract_pcts: the first of clat_ns, clat_us, clat
\* that is not None; "" when all are None.
PctOrder == <<"clat_ns", "clat_us", "clat">>

PctContainer(op_data) ==
    LET ok == {i \in 1..Len(PctOrder) : ~IsNone(Get(op_data, PctOrder[i]))}
    IN  IF ok = {} THEN "" ELSE PctOrder[CHOOSE i \in ok : \A j \in ok : i <= j]

\* The assignment of one percentile in _extract_pcts, for the resolved key.
PctOfKey(c, pcts, key) ==
    IF IsNone(key) THEN None ELSE ToMs(c, _to_float(pcts.dict[key.some]))

\* _extract_pcts assigning a percentile only from a label within 1 of the
\* target.
PctOfPercentiles_WithinOne(c, pcts, t) ==
    IF ~IsDict(pcts) THEN None
    ELSE LET key == _find_percentile_key(pcts.dict, t)
         IN  IF IsSome(key)
                /\ RLeq(RAbs(RSub(ParseFloat(key.some).some, RInt(t))), RInt(1))
             THEN PctOfKey(c, pcts, key)
             ELSE None

PctOfPercentiles(c, pcts, t) ==
    IF ~IsDict(pcts) THEN None
    ELSE PctOfKey(c, pcts, _find_percentile_key(pcts.dict, t))

\* _extract_pcts(container, to_ms_fn) for one target: the converted value of
\* the resolved key, None when nothing is assigned.
PctOfContainer(c, container, t) ==
    IF ~IsDict(container) THEN None
    ELSE PctOfPercentiles(c, Or(Get(container, "percentile"), Get(container, "percentiles")), t)

ExtractPctFrom(op_data, c, t) ==
    IF c = "" THEN None ELSE PctOfContainer(c, Get(op_data, c), t)

ExtractPct(op_data, t) == ExtractPctFrom(op_data, PctContainer(op_data), t)

\* The row of one direction of one job, or the exception op_data.get raises.
OpRow(path, task, runner, job, job_fields, op) ==
    LET op_data == job.dict[op]
    IN  IF ~IsDict(op_data) THEN Raise("AttributeError")
        ELSE ParsedRow(
            [source_file |-> Basename(path),
             task |-> task,
             timestamp |-> compute_timestamp_from_path(path),
             runner |-> runner,
             jobname |-> job_fields.jobname,
             rw |-> job_fields.rw,
             access_pattern |-> _normalize_access_pattern(job_fields.rw),
             bs |-> job_fields.bs,
             bs_bytes |-> _parse_bs_to_bytes(job_fields.bs),
             iodepth |-> job_fields.iodepth,
             numjobs |-> job_fields.numjobs,
             runtime_s |-> job_fields.runtime_s,
             size_bytes |-> job_fields.size_bytes,
             op |-> op,
             iops |-> _to_float(Get(op_data, "iops")),
             bw_MBps |-> _kbps_to_MBps(_to_float(Get(op_data, "bw"))),
             lat_mean_ms |-> LatMeanMs(op_data),
             clat_p99_ms |-> ExtractPct(op_data, 99),
             clat_p95_ms |-> ExtractPct(op_data, 95),
             clat_p50_ms |-> ExtractPct(op_data, 50),
             total_ios |-> _to_int(Get(op_data, "total_ios"))])

\* job.get("job options", {}): the default applies only to a missing key.
JobOptionsOrEmpty(job) ==
    IF HasKey(job, "job options") THEN job.dict["job options"] ELSE JDict(<<>>)

\* runtime_s: a value above 1000 is taken to be milliseconds.
RuntimeSeconds(rt0) ==
    IF IsSome(rt0) /\ RLess(RInt(1000), rt0.some) THEN Some(RDivInt(rt0.some, 1000)) ELSE rt0

\* size_bytes: _to_int of the size, else _parse_size_to_bytes of it.
SizeBytes(size, as_int) ==
    IF IsSome(as_int) THEN Some([num |-> as_int.some, power |-> 0])
    ELSE _parse_size_to_bytes(size)

SizeBytesOf(size) == SizeBytes(size, _to_int(size))

\* The descriptors of a job whose options and global options are mappings.
JobFieldsOf(job, options, globals, rt_job) ==
    [jobname |-> Get(job, "jobname"),
     rw |-> Or(Get(options, "rw"), Get(options, "readwrite")),
     bs |-> Get(options, "bs"),
     iodepth |-> _to_int(Get(options, "iodepth")),
     numjobs |-> _to_int(Get(options, "numjobs")),
     runtime_s |-> RuntimeSeconds(_to_float(IF Truthy(rt_job) THEN rt_job
                                            ELSE Get(globals, "runtime"))),
     size_bytes |-> SizeBytesOf(Get(JobOptionsOrEmpty(job), "size"))]

JobFieldsWith(job, options, globals, rt_job) ==
    IF ~IsDict(options) THEN Raise("AttributeError")
    ELSE IF ~Truthy(rt_job) /\ ~IsDict(globals) THEN Raise("AttributeError")
    ELSE IF ~IsDict(JobOptionsOrEmpty(job)) THEN Raise("AttributeError")
    ELSE JobFieldsOf(job, options, globals, rt_job)

\* The per-job part of parse_fio_json before the loop over the directions:
\* the descriptors of the job, or the exception a .get on a non-mapping raises.
JobFields(data, job) ==
    IF ~IsDict(job) THEN Raise("AttributeError")
    ELSE JobFieldsWith(job,
                       Or(Get(job, "job options"), JDict(<<>>)),
                       IF HasKey(data, "global options")
                       THEN data.dict["global options"] ELSE JDict(<<>>),
                       Get(job, "runtime"))

\* The outcome of a loop whose passes gave made: the first exception, else
\* all that was made.
FirstRaisedOr(made) ==
    IF \E i \in 1..Len(made) : Raised(made[i])
    THEN made[CHOOSE i \in 1..Len(made) :
                 Raised(made[i]) /\ \A j \in 1..(i - 1) : ~Raised(made[j])]
    ELSE [rows |-> made]

\* The loop over the directions in the other order.
DirectionsPresent_WriteFirst(job) ==
    SelectSeq(<<"write", "read">>, LAMBDA op : HasKey(job, op))

DirectionsPresent(job) == SelectSeq(<<"read", "write">>, LAMBDA op : HasKey(job, op))

JobRowsWith(path, task, runner, job, jf, ops) ==
    IF Raised(jf) THEN jf
    ELSE FirstRaisedOr([i \in 1..Len(ops) |-> OpRow(path, task, runner, job, jf, ops[i])])

\* The rows of one job (read before write) as [rows |-> ...], or the first
\* exception.
JobRows(path, task, runner, data, job) ==
    JobRowsWith(path, task, runner, job, JobFields(data, job),
                IF IsDict(job) THEN DirectionsPresent(job) ELSE <<>>)

RECURSIVE Concat(_)
Concat(seqs) == IF seqs = <<>> THEN <<>> ELSE Head(seqs) \o Concat(Tail(seqs))

\* The rows of the jobs joined, or the exception of the first job that raised.
JoinRows(per) ==
    IF Raised(per) THEN per
    ELSE [rows |-> Concat([i \in 1..Len(per.rows) |-> per.rows[i].rows])]

JobsRows(data, path, task, runner, jobs) ==
    IF IsNum(jobs) THEN Raise("TypeError")
    ELSE IF ~IsList(jobs) THEN Raise("AttributeError")
    ELSE JoinRows(FirstRaisedOr([i \in 1..Len(jobs.list) |->
                                    JobRows(path, task, runner, data, jobs.list[i])]))

\* parse_fio_json(data, source_file, task, runner): the rows returned, as
\* [rows |-> ...], or the exception that leaves the function.
parse_fio_json(data, path, task, runner) ==
    IF ~IsDict(data) THEN Raise("AttributeError")
    ELSE JobsRows(data, path, task, runner, Or(Get(data, "jobs"), JList(<<>>)))

(***************************************************************************)
(* Text parser (best-effort)                                               *)
(*                                                                         *)
(* The raw text is a sequence of the fragments the three patterns look     *)
(* for:                                                                    *)
(*   [tok |-> "lathdr"]                    "clat (usec):" or "lat (...):"  *)
(*   [tok |-> "avg", avg, unit]            "avg=<avg><unit>", unit may be  *)
(*                                         empty ("avg=120.5, stdev=...")  *)
(*   [tok |-> "thr", op, iops, bw_value, bw_unit]                          *)
(*                                         "<op>: IOPS=<iops>, BW=<bw>"    *)
(*   [tok |-> "meta", rw, bs, iodepth]     "rw=.. bs=.. iodepth=.."        *)
(*   [tok |-> "other"]                     anything else                   *)
(***************************************************************************)
\* The unit alternatives of _RE_LAT_AVG: n?sec|usec|msec|ms|us|ns.
LatUnits ==
    {<<"s", "e", "c">>, <<"n", "s", "e", "c">>, <<"u", "s", "e", "c">>,
     <<"m", "s", "e", "c">>, <<"m", "s">>, <<"u", "s">>, <<"n", "s">>}

LatencyMs(v, u) ==
    IF IsNone(v) THEN None
    ELSE IF u \in {<<"n", "s">>, <<"n", "s", "e", "c">>} THEN Some(RDivInt(v.some, 1000000))
    ELSE IF u \in {<<"u", "s">>, <<"u", "s", "e", "c">>} THEN Some(RDivInt(v.some, 1000))
    ELSE IF u \in {<<"m", "s">>, <<"m", "s", "e", "c">>} THEN v
    ELSE None

\* _parse_latency_to_ms(value, unit).
_parse_latency_to_ms(value, unit) == LatencyMs(ParseFloat(value), Lower(unit))

BwPerSec == <<"b", "/", "s">>

BwMBps(v, u) ==
    IF IsNone(v) THEN None
    ELSE IF u \in {<<"k">> \o BwPerSec, <<"k", "i">> \o BwPerSec}
         THEN Some(RMul(v.some, Rat(1024, 1000000)))
    ELSE IF u \in {<<"m">> \o BwPerSec, <<"m", "i">> \o BwPerSec}
         THEN Some(RMul(v.some, Rat(1024 * 1024, 1000000)))
    ELSE IF u \in {<<"g">> \o BwPerSec, <<"g", "i">> \o BwPerSec}
         THEN Some(RMul(v.some, Rat(1024 * 1024 * 1024, 1000000)))
    ELSE IF Len(u) >= 3 /\ SubSeq(u, Len(u) - 2, Len(u)) = BwPerSec
         THEN Some(RDivInt(v.some, 1000000))
    ELSE None

\* _parse_bw_to_MBps(value, unit).
_parse_bw_to_MBps(value, unit) == BwMBps(ParseFloat(value), Lower(Strip(unit)))

\* _RE_LAT_AVG.search(text): the first "avg" fragment with a unit of the
\* pattern that follows the leftmost latency header; 0 when there is none.
LatMatch(text) ==
    LET hdrs == {i \in 1..Len(text) : text[i].tok = "lathdr"}
        avgs == {j \in 1..Len(text) : text[j].tok = "avg" /\ Lower(text[j].unit) \in LatUnits}
        ends == {j \in avgs : \E i \in hdrs : i < j}
    IN  IF ends = {} THEN 0 ELSE CHOOSE j \in ends : \A k \in ends : j <= k

\* _RE_META.search(text): the first metadata fragment; 0 when there is none.
MetaMatch(text) ==
    LET ms == {i \in 1..Len(text) : text[i].tok = "meta"}
    IN  IF ms = {} THEN 0 ELSE CHOOSE i \in ms : \A k \in ms : i <= k

\* The op group of _RE_IOPS_BW, lowercased, as the op name of a row.
OpOfText(op) == IF op = <<"r", "e", "a", "d">> THEN "read" ELSE "write"

\* The keyword arguments parse_fio_text passes to ParsedRow: total_ios is not
\* among them.
TextRowArgs(path, task, runner, rw, bs, iodepth, op, iops, bw_MBps, lat_mean_ms) ==
    [source_file |-> Basename(path),
     task |-> task,
     timestamp |-> compute_timestamp_from_path(path),
     runner |-> runner,
     jobname |-> None,
     rw |-> rw,
     access_pattern |-> _normalize_access_pattern(rw),
     bs |-> bs,
     bs_bytes |-> _parse_bs_to_bytes(bs),
     iodepth |-> iodepth,
     numjobs |-> None,
     runtime_s |-> None,
     size_bytes |-> None,
     op |-> op,
     iops |-> iops,
     bw_MBps |-> bw_MBps,
     lat_mean_ms |-> lat_mean_ms,
     clat_p99_ms |-> None,
     clat_p95_ms |-> None,
     clat_p50_ms |-> None]

\* The rows of the matches of _RE_IOPS_BW, in order.
ThroughputRows(thr, path, task, runner, rw, bs, iodepth, lat_mean_ms_global) ==
    [i \in 1..Len(thr) |->
        ParsedRow(TextRowArgs(path, task, runner, rw, bs, iodepth,
                              OpOfText(Lower(thr[i].op)),
                              _to_float(JStr(thr[i].iops)),
                              _parse_bw_to_MBps(thr[i].bw_value, thr[i].bw_unit),
                              lat_mean_ms_global))]

\* The single generic row.
GenericRow(path, task, runner, rw, bs, iodepth, lat_mean_ms_global) ==
    FirstRaisedOr(<<ParsedRow(TextRowArgs(path, task, runner, rw, bs, iodepth,
                                          "unknown", None, None, lat_mean_ms_global))>>)

\* The two parts of parse_fio_text after the three scans.
TextRows(thr, path, task, runner, rw, bs, iodepth, lat_mean_ms_global) ==
    IF thr # <<>>
    THEN FirstRaisedOr(ThroughputRows(thr, path, task, runner, rw, bs, iodepth,
                                      lat_mean_ms_global))
    ELSE IF IsSome(lat_mean_ms_global)
    THEN GenericRow(path, task, runner, rw, bs, iodepth, lat_mean_ms_global)
    ELSE [rows |-> <<>>]

MetaGroup(text, m, group) == IF m = 0 THEN None ELSE JStr(text[m][group])

LatencyOfMatch(text, l) ==
    IF l = 0 THEN None ELSE _parse_latency_to_ms(text[l].avg, text[l].unit)

TextRowsWithMeta(text, path, task, runner, m, l) ==
    TextRows(SelectSeq(text, LAMBDA t : t.tok = "thr"), path, task, runner,
             MetaGroup(text, m, "rw"),
             MetaGroup(text, m, "bs"),
             _to_int(MetaGroup(text, m, "iodepth")),
             LatencyOfMatch(text, l))

\* parse_fio_text(text, source_file, task, runner): the rows returned, as
\* [rows |-> ...], or the exception that leaves the function.
parse_fio_text(text, path, task, runner) ==
    TextRowsWithMeta(text, path, task, runner, MetaMatch(text), LatMatch(text))

(***************************************************************************)
(* Discovery and export                                                    *)
(*                                                                         *)
(* The content of a file is [readable, json, text]: whether open/read      *)
(* succeeds, the value json.loads returns (None when it raises), and the   *)
(* fragments of the raw text.                                              *)
(***************************************************************************)
\* The two try blocks of parse_file, given what each parser does.
Dispatch(js, tx) ==
    IF ~Raised(js) THEN [rows |-> js.rows, text_result |-> None, stderr |-> 0]
    ELSE IF ~Raised(tx) THEN [rows |-> tx.rows, text_result |-> Some(tx), stderr |-> 0]
    ELSE [rows |-> <<>>, text_result |-> Some(tx), stderr |-> 1]

LoadsAndParse(path, content, task, runner) ==
    IF IsNone(content.json) THEN Raise("JSONDecodeError")
    ELSE parse_fio_json(content.json.some, path, task, runner)

ParseRead(path, content, task, runner) ==
    Dispatch(LoadsAndParse(path, content, task, runner),
             parse_fio_text(content.text, path, task, runner))

\* parse_file without the except clause around the text fallback: what the
\* fallback raises leaves the call.
Unguarded(r) ==
    IF IsSome(r.text_result) /\ Raised(r.text_result.some) THEN r.text_result.some ELSE r

parse_file_TextUnguarded(path, content) ==
    IF ~content.readable THEN [rows |-> <<>>, text_result |-> None, stderr |-> 1]
    ELSE Unguarded(ParseRead(path, content, compute_task_name(path), compute_runner_name(path)))

\* parse_file(path, input_root): the rows returned, the outcome of the call
\* of parse_fio_text (None when it is not called) and the number of
\* diagnostics written to stderr.
parse_file(path, content) ==
    IF ~content.readable THEN [rows |-> <<>>, text_result |-> None, stderr |-> 1]
    ELSE ParseRead(path, content, compute_task_name(path), compute_runner_name(path))

\* rows_to_dataframe with only the first record kept.
rows_to_dataframe_Head(rows) ==
    IF rows = <<>> THEN {} ELSE {rows[1]}

\* rows_to_dataframe(rows): the table of the records, empty when there are
\* none.  The table is the set of its rows; the stable sort of lines 616-627
\* fixes their order in the sheet.
rows_to_dataframe(rows) ==
    IF rows = <<>> THEN {} ELSE {rows[i] : i \in 1..Len(rows)}

(***************************************************************************)
(* Sheet names                                                             *)
(*                                                                         *)
(* The registry `used` is a dict whose values are all 1: it is modelled by *)
(* the set of its keys.                                                    *)
(***************************************************************************)
\* The characters Excel does not allow in a sheet name.
invalid == {":", "\\", "/", "?", "*", "[", "]"}

\* The length Excel allows for a sheet name.
SheetNameLimit == 31

\* safe: each invalid character replaced by "_", cut to the limit.
SafeName(name) ==
    SubSeq([i \in 1..Len(name) |-> IF name[i] \in invalid THEN "_" ELSE name[i]],
           1, IF Len(name) < SheetNameLimit THEN Len(name) ELSE SheetNameLimit)

\* f"_{idx}"
Suffix(idx) == <<"_">> \o StrOfInt(idx)

\* candidate with the suffix appended to the whole base.
Candidate_NoTruncate(base, idx) == base \o Suffix(idx)

\* candidate = base[: max(0, 31 - len(f"_{idx}"))] + f"_{idx}"
Candidate(base, idx) ==
    SubSeq(base, 1,
           IF Len(base) < SheetNameLimit - Len(Suffix(idx)) THEN Len(base)
           ELSE IF SheetNameLimit - Len(Suffix(idx)) > 0 THEN SheetNameLimit - Len(Suffix(idx))
           ELSE 0)
        \o Suffix(idx)

(***************************************************************************)
(* Task order                                                              *)
(***************************************************************************)
\* _RE_PARALLEL_DEGREE matches at position i of name.
DegreeMatchAt(name, i) ==
    /\ i + Len(ParallelDash) <= Len(name)
    /\ SubSeq(name, i, i + Len(ParallelDash) - 1) = ParallelDash
    /\ IsDigit(name[i + Len(ParallelDash)])

\* _extract_parallel_degree: the number after the leftmost "parallel-" that a
\* digit follows, or None.  task_name is an optional string.
_extract_parallel_degree(task_name) ==
    IF IsNone(task_name) \/ task_name.some = <<>> THEN None
    ELSE LET name == task_name.some
             at   == {i \in 1..Len(name) : DegreeMatchAt(name, i)}
         IN  IF at = {} THEN None
             ELSE LET i0 == CHOOSE i \in at : \A j \in at : i <= j
                  IN  Some(IntOfDigits(DigitRun(name, i0 + Len(ParallelDash))))

\* desired = [3, 6, 9, 12, 15]
desired == <<3, 6, 9, 12, 15>>

\* desired.index(deg): the 0-based position of deg in desired.
DesiredIndex(deg) == (CHOOSE i \in 1..Len(desired) : desired[i] = deg) - 1

InDesired(deg) == \E i \in 1..Len(desired) : desired[i] = deg

\* The second sort key of a task name from which no degree can be extracted.
NoDegreeKey == 1000000000

\* parts with the rank of the recognized degrees dropped: by degree alone.
parts_DegreeOnly(name) ==
    LET deg == _extract_parallel_degree(Some(name))
    IN  <<0, IF IsSome(deg) THEN deg.some ELSE NoDegreeKey>>

\* parts with the degree of an unrecognized task dropped: all such tasks tie.
parts_NoSecondKey(name) ==
    LET deg == _extract_parallel_degree(Some(name))
    IN  IF IsSome(deg) /\ InDesired(deg.some)
        THEN <<DesiredIndex(deg.some), deg.some>>
        ELSE <<Len(desired), NoDegreeKey>>

\* parts(name) of _sort_df_by_task_order: the pair (__ord1__, __ord2__).
parts(name) ==
    LET deg == _extract_parallel_degree(Some(name))
    IN  IF IsSome(deg) /\ InDesired(deg.some)
        THEN <<DesiredIndex(deg.some), deg.some>>
        ELSE <<Len(desired), IF IsSome(deg) THEN deg.some ELSE NoDegreeKey>>

\* sort_values(by=[__ord1__, __ord2__, task]): a comes strictly before b.
TaskKeyLess(a, b) ==
    LET pa == parts(a)
        pb == parts(b)
    IN  \/ pa[1] < pb[1]
        \/ pa[1] = pb[1] /\ pa[2] < pb[2]
        \/ pa[1] = pb[1] /\ pa[2] = pb[2] /\ StrLess(a, b)

\* One step of the stable sort: x goes after every element that is not
\* strictly after it (kind="mergesort" keeps equal keys in input order).
RECURSIVE InsertByTaskKey(_, _)
InsertByTaskKey(s, x) ==
    IF s = <<>> THEN <<x>>
    ELSE IF TaskKeyLess(x, Head(s)) THEN <<x>> \o s
    ELSE <<Head(s)>> \o InsertByTaskKey(Tail(s), x)

\* _sort_df_by_task_order on the task column of a table.
RECURSIVE _sort_df_by_task_order(_)
_sort_df_by_task_order(col) ==
    IF col = <<>> THEN <<>>
    ELSE InsertByTaskKey(_sort_df_by_task_order(SubSeq(col, 1, Len(col) - 1)),
                         col[Len(col)])

\* The sort keys of summary_detailed: __rank__, then __deg__ (a missing degree
\* is NaN, which sort_values puts last), then task.
DetailedKeyLess(a, b) ==
    LET da == _extract_parallel_degree(Some(a))
        db == _extract_parallel_degree(Some(b))
        ra == IF IsSome(da) /\ InDesired(da.some) THEN DesiredIndex(da.some) ELSE Len(desired)
        rb == IF IsSome(db) /\ InDesired(db.some) THEN DesiredIndex(db.some) ELSE Len(desired)
        degLess == IsSome(da) /\ (IsNone(db) \/ da.some < db.some)
        degEq   == da = db
    IN  \/ ra < rb
        \/ ra = rb /\ degLess
        \/ ra = rb /\ degEq /\ StrLess(a, b)

RECURSIVE InsertByDetailedKey(_, _)
InsertByDetailedKey(s, x) ==
    IF s = <<>> THEN <<x>>
    ELSE IF DetailedKeyLess(x, Head(s)) THEN <<x>> \o s
    ELSE <<Head(s)>> \o InsertByDetailedKey(Tail(s), x)

\* base.sort_values(by=[__rank__, __deg__, task, bs_bytes], kind="mergesort"),
\* on the task column.
RECURSIVE SortDetailed(_)
SortDetailed(col) ==
    IF col = <<>> THEN <<>>
    ELSE InsertByDetailedKey(SortDetailed(SubSeq(col, 1, Len(col) - 1)), col[Len(col)])

(***************************************************************************)
(* Per-task rollup of export_to_excel (the summary sheet)                  *)
(*                                                                         *)
(* The table is the set of its rows; two rows differ at least in           *)
(* source_file, jobname or op.  Sums and means are exact, so the order of  *)
(* the rows within a group does not matter.  The columns modelled are the  *)
(* keys, the throughput columns and runs_count.                            *)
(***************************************************************************)
\* Series.sum() over the rows of a group: NaN is skipped, nothing sums to 0.
RECURSIVE SumCol(_, _)
SumCol(rows, col) ==
    IF rows = {} THEN RInt(0)
    ELSE LET r == CHOOSE x \in rows : TRUE
         IN  IF IsSome(r[col]) THEN RAdd(r[col].some, SumCol(rows \ {r}, col))
             ELSE SumCol(rows \ {r}, col)

\* Series.mean() over the rows of a group: NaN is skipped, nothing gives NaN.
MeanCol(rows, col) ==
    LET present == {r \in rows : IsSome(r[col])}
    IN  IF present = {} THEN None
        ELSE Some(RDivInt(SumCol(present, col), Cardinality(present)))

\* The keys of groupby(by, dropna=False): None is a key like any other.
GroupKeys(rows, by) == {[c \in by |-> r[c]] : r \in rows}

Group(rows, key) == {r \in rows : \A c \in DOMAIN key : r[c] = key[c]}

group_with_op == {"task", "access_pattern", "op"}

\* df_summary["runner"].notna().any()
HasRunner(rows) == \E r \in rows : IsSome(r.runner)

\* tmp: the mean of each runner within each group and direction.
RunnerMeans(rows) ==
    {key @@ [iops |-> MeanCol(Group(rows, key), "iops"),
             bw_MBps |-> MeanCol(Group(rows, key), "bw_MBps")] :
        key \in GroupKeys(rows, group_with_op \cup {"runner"})}

\* The sum of the throughput columns over each group and direction.
SumPerGroup(rows) ==
    {key @@ [iops |-> Some(SumCol(Group(rows, key), "iops")),
             bw_MBps |-> Some(SumCol(Group(rows, key), "bw_MBps"))] :
        key \in GroupKeys(rows, group_with_op)}

\* agg with the runner step left out: the raw sum of the rows.
ThroughputAgg_RawSum(rows) == SumPerGroup(rows)

\* agg: runner-normalized when some row has a runner, the raw sum otherwise.
ThroughputAgg(rows) ==
    IF HasRunner(rows) THEN SumPerGroup(RunnerMeans(rows)) ELSE SumPerGroup(rows)

\* The rows pivot_table keeps: its groupby drops a key that is NaN.
PivotRows(agg) == {a \in agg : IsSome(a.task) /\ IsSome(a.access_pattern)}

\* The index of the pivot: the (task, access_pattern) pairs.
PivotIndex(agg) ==
    {[task |-> a.task.some, access_pattern |-> a.access_pattern.some] : a \in PivotRows(agg)}

\* The columns of the pivot: the directions.
PivotOps(agg) == {a.op : a \in PivotRows(agg)}

\* A cell of the pivot after fillna(0) and after the missing columns among
\* read and write are added as 0.
Cell(agg, idx, op, col) ==
    SumCol({a \in PivotRows(agg) :
               /\ a.task.some = idx.task
               /\ a.access_pattern.some = idx.access_pattern
               /\ a.op = op}, col)

\* summary_df[cols].sum(axis=1) over the columns of one prefix.
RECURSIVE TotalAll(_, _, _, _)
TotalAll(agg, idx, ops, col) ==
    IF ops = {} THEN RInt(0)
    ELSE LET op == CHOOSE x \in ops : TRUE
         IN  RAdd(Cell(agg, idx, op, col), TotalAll(agg, idx, ops \ {op}, col))

\* Series.sum() of an integer column over the rows of a group: NaN is skipped.
RECURSIVE SumInt(_, _)
SumInt(rows, col) ==
    IF rows = {} THEN 0
    ELSE LET r == CHOOSE x \in rows : TRUE
         IN  (IF IsSome(r[col]) THEN r[col].some ELSE 0) + SumInt(rows \ {r}, col)

\* tmp_lat with one cell per row: no aggregation at the level of the runner.
LatCells_PerRow(rows) ==
    {[task |-> r.task, access_pattern |-> r.access_pattern, op |-> r.op,
      runner |-> r.runner, source_file |-> r.source_file,
      lat_mean_ms |-> r.lat_mean_ms,
      total_ios |-> IF IsSome(r.total_ios) THEN r.total_ios.some ELSE 0] : r \in rows}

\* tmp_lat: for each group, direction and runner, the mean of lat_mean_ms and
\* the sum of total_ios over the attempts.
LatCells(rows) ==
    {key @@ [lat_mean_ms |-> MeanCol(Group(rows, key), "lat_mean_ms"),
             total_ios |-> SumInt(Group(rows, key), "total_ios")] :
        key \in GroupKeys(rows, group_with_op \cup {"runner"})}

\* (vals * w).sum(): a NaN latency is skipped.
RECURSIVE WeightedSum(_)
WeightedSum(cells) ==
    IF cells = {} THEN RInt(0)
    ELSE LET c == CHOOSE x \in cells : TRUE
         IN  IF IsSome(c.lat_mean_ms)
             THEN RAdd(RMul(c.lat_mean_ms.some, RInt(c.total_ios)), WeightedSum(cells \ {c}))
             ELSE WeightedSum(cells \ {c})

\* w.sum()
RECURSIVE TotalWeight(_)
TotalWeight(cells) ==
    IF cells = {} THEN 0
    ELSE LET c == CHOOSE x \in cells : TRUE
         IN  c.total_ios + TotalWeight(cells \ {c})

\* The weighted mean of one group g of tmp_lat; NaN when the weights sum to 0.
WeightedMean(g) ==
    IF TotalWeight(g) > 0 THEN Some(RDivInt(WeightedSum(g), TotalWeight(g))) ELSE None

\* latency_mean_ms as merged into the row of the summary for idx.
LatencyMean(rows, idx) ==
    WeightedMean({c \in LatCells(rows) :
                     /\ c.task = Some(idx.task)
                     /\ c.access_pattern = Some(idx.access_pattern)})

\* tmp[metrics_lat]: the mean of each runner within each group and direction.
RunnerLatMeans(rows) ==
    {key @@ [clat_p99_ms |-> MeanCol(Group(rows, key), "clat_p99_ms"),
             clat_p95_ms |-> MeanCol(Group(rows, key), "clat_p95_ms")] :
        key \in GroupKeys(rows, group_with_op \cup {"runner"})}

\* The mean of the latency columns over each group and direction.
MeanPerGroup(rows) ==
    {key @@ [clat_p99_ms |-> MeanCol(Group(rows, key), "clat_p99_ms"),
             clat_p95_ms |-> MeanCol(Group(rows, key), "clat_p95_ms")] :
        key \in GroupKeys(rows, group_with_op)}

\* agg_lat: the mean over the runners of the means of each runner when some
\* row has a runner, the mean over the rows otherwise.
LatencyAgg(rows) ==
    IF HasRunner(rows) THEN MeanPerGroup(RunnerLatMeans(rows)) ELSE MeanPerGroup(rows)

\* A cell of lat_p99 / lat_p95: pivot_table(index=tcol, columns="op",
\* aggfunc="mean"), the mean over the rows of agg of one task and direction.
LatPivotCell(agg, task, op, col) ==
    MeanCol({a \in agg : a.task = Some(task) /\ a.op = op}, col)

\* lat_p99.mean(axis=1): a Series whose index is the task alone.
LatencyByTask(agg, col) ==
    [label \in {[task |-> a.task.some] : a \in {x \in agg : IsSome(x.task)}} |->
        MeanCol({[op |-> o, v |-> LatPivotCell(agg, label.task, o, col)] :
                    o \in {"read", "write"}}, "v")]

\* summary_df[column] = series: the series is reindexed to the index of
\* summary_df, a label that is not in the index of the series gives NaN.
Reindex(series, label) == IF label \in DOMAIN series THEN series[label] ELSE None

\* latency_p99_ms / latency_p95_ms of the row of the summary for idx, a label
\* (task, access_pattern) of the index of summary_df.
LatencyColumn(rows, idx, col) == Reindex(LatencyByTask(LatencyAgg(rows), col), idx)

\* rc merged on task: per task the number of distinct runners when some row
\* has a runner, else the number of rows.
RunsCount(rows, task) ==
    IF HasRunner(rows)
    THEN Cardinality({r.runner : r \in {x \in rows : x.task = Some(task) /\ IsSome(x.runner)}})
    ELSE Cardinality({r \in rows : r.task = Some(task)})

\* _div(a, b): a / b, NaN when b is 0.
_div(a, b) == IF b # 0 THEN Some(RDivInt(a, b)) ELSE None

\* The row of the summary sheet for one entry of the index.
SummaryRow(rows, agg, idx) ==
    LET rc == RunsCount(rows, idx.task)
    IN  [task |-> idx.task,
         access_pattern |-> idx.access_pattern,
         iops_read |-> Cell(agg, idx, "read", "iops"),
         iops_write |-> Cell(agg, idx, "write", "iops"),
         iops_total_all |-> TotalAll(agg, idx, PivotOps(agg), "iops"),
         iops_read_per_runner |-> _div(Cell(agg, idx, "read", "iops"), rc),
         iops_write_per_runner |-> _div(Cell(agg, idx, "write", "iops"), rc),
         bw_MBps_read |-> Cell(agg, idx, "read", "bw_MBps"),
         bw_MBps_write |-> Cell(agg, idx, "write", "bw_MBps"),
         bw_total_all_MBps |-> TotalAll(agg, idx, PivotOps(agg), "bw_MBps"),
         bw_MBps_read_per_runner |-> _div(Cell(agg, idx, "read", "bw_MBps"), rc),
         bw_MBps_write_per_runner |-> _div(Cell(agg, idx, "write", "bw_MBps"), rc),
         latency_mean_ms |-> LatencyMean(rows, idx),
         latency_p99_ms |-> LatencyColumn(rows, idx, "clat_p99_ms"),
         latency_p95_ms |-> LatencyColumn(rows, idx, "clat_p95_ms"),
         runs_count |-> rc]

\* The order of the access patterns in the sorted index of the pivot.
AccessPatternLess(a, b) == a = "random" /\ b = "sequential"

\* The sorted index of the pivot comes before the task sort, which is
\* stable: by the key of the task, then by access pattern.
SummaryLess(a, b) ==
    \/ TaskKeyLess(a.task, b.task)
    \/ a.task = b.task /\ AccessPatternLess(a.access_pattern, b.access_pattern)

RECURSIVE SortSummary(_)
SortSummary(S) ==
    IF S = {} THEN <<>>
    ELSE LET first == CHOOSE x \in S : \A y \in S \ {x} : SummaryLess(x, y)
         IN  <<first>> \o SortSummary(S \ {first})

\* The summary sheet export_to_excel writes for a table.
export_to_excel(rows) ==
    IF rows = {} THEN <<>>
    ELSE LET agg == ThroughputAgg(rows)
         IN  SortSummary({SummaryRow(rows, agg, idx) : idx \in PivotIndex(agg)})

\* The single sheet export_to_excel writes for an empty table.
NoResults == [sheet |-> "summary", message |-> "No results parsed"]

\* export_to_excel without the branch of lines 795-799.
Workbook_AlwaysRollup(table) ==
    [sheet |-> "summary", rows |-> export_to_excel(table)]

\* The workbook export_to_excel leaves at the output path.
Workbook(table) ==
    IF table = {} THEN NoResults
    ELSE [sheet |-> "summary", rows |-> export_to_excel(table)]

(***************************************************************************)
(* Aggregation passes                                                      *)
(*                                                                         *)
(* A call export_to_excel(df, ...) is given a reference to the table of    *)
(* its caller; the writer, and the registry of sheet names kept on it, are *)
(* created by the call.                                                    *)
(***************************************************************************)
\* re.sub(r"-20\d{6}T\d{6}Z$", "", x) if isinstance(x, str) else x
RemoveSuffix(task) ==
    IF IsNone(task) THEN task
    ELSE IF /\ Len(task.some) >= 17
            /\ task.some[Len(task.some) - 16] = "-"
            /\ TimestampAt(task.some, Len(task.some) - 15)
         THEN Some(SubSeq(task.some, 1, Len(task.some) - 17))
         ELSE task

\* df["task"].apply(...) over a table.
NormalizeTasks(rows) == {[r EXCEPT !.task = RemoveSuffix(r.task)] : r \in rows}

\* The table the name df is bound to after lines 802-806.
LocalTable(rows, remove) == IF remove THEN NormalizeTasks(rows) ELSE rows

\* Lines 802-806 without df = df.copy(): the column is assigned in the table
\* of the caller.
CallerTable_NoCopy(rows, remove) == LocalTable(rows, remove)

\* The table of the caller after the call: line 803 rebinds df to a copy
\* before the column is assigned, and nothing else assigns to df.
CallerTable(rows, remove) == rows

\* df_summary with tcol as its task column, lines 820-826.
SummaryTable(local, remove) == IF remove THEN NormalizeTasks(local) ELSE local

\* The loop of sanitize_sheet_name, from idx.
RECURSIVE FreeCandidate(_, _, _)
FreeCandidate(base, idx, used) ==
    IF Candidate(base, idx + 1) \notin used THEN Candidate(base, idx + 1)
    ELSE FreeCandidate(base, idx + 1, used)

\* sanitize_sheet_name(name, used): the name returned; the call adds it to
\* used.
sanitize_sheet_name(name, used) ==
    IF SafeName(name) \notin used THEN SafeName(name)
    ELSE FreeCandidate(SafeName(name), 1, used)

\* str(task_name) for a key of df.groupby("task", dropna=False).
SheetTitle(task) == IF IsNone(task) THEN <<"n", "a", "n">> ELSE task.some

\* The order of the keys of the groupby: sorted, the missing key last.
TaskKeyBefore(a, b) == IsSome(a) /\ (IsNone(b) \/ StrLess(a.some, b.some))

\* The names of the task sheets of lines 810-813, in the order written.
RECURSIVE TaskSheets(_, _)
TaskSheetsFrom(name, rest, used) ==
    <<name>> \o TaskSheets(rest, used \cup {name})

FirstTask(tasks) == CHOOSE t \in tasks : \A u \in tasks \ {t} : TaskKeyBefore(t, u)

TaskSheets(tasks, used) ==
    IF tasks = {} THEN <<>>
    ELSE TaskSheetsFrom(sanitize_sheet_name(SheetTitle(FirstTask(tasks)), used),
                        tasks \ {FirstTask(tasks)}, used)

\* pd.ExcelWriter(...) of line 808 with the registry of the writer of the
\* call before.
WriterRegistry_Kept(previous) == previous

\* The registry of the writer a call creates: _write_task_sheet finds no
\* _sheet_name_registry on it and starts from {} (lines 632-635).
WriterRegistry(previous) == {}

\* What a call export_to_excel(df, output, remove_suffix, detailed_sheets)
\* writes: the summary sheet and the names of the task sheets; used is the
\* registry of its writer when it ends.
PassOutput(workbook_written, names, used) ==
    [workbook |-> workbook_written, sheets |-> names,
     used |-> used \cup {names[i] : i \in 1..Len(names)}]

ExportPass(rows, remove, detailed, used) ==
    PassOutput(Workbook(SummaryTable(LocalTable(rows, remove), remove)),
               IF detailed THEN TaskSheets({r.task : r \in LocalTable(rows, remove)}, used)
               ELSE <<>>,
               used)

(***************************************************************************)
(* Inputs of the task-order sort                                           *)
(***************************************************************************)
MaxTasks == 3

Task3  == ParallelDash \o <<"3", "-", "a", "-">>
Task6  == ParallelDash \o <<"6", "-", "a", "-">>
Task20 == ParallelDash \o <<"2", "0", "-", "a", "-">>
Task4  == ParallelDash \o <<"4", "-", "a", "-">>
TaskAlpha == <<"a", "l", "p", "h", "a">>
TaskNoDigit == ParallelDash \o <<"x">>

TaskNames == {Task3, Task6, Task20, Task4, TaskAlpha, TaskNoDigit}

SeqsUpTo(S, n) == UNION {[1..k -> S] : k \in 0..n}

(***************************************************************************)
(* Inputs of the percentile resolver                                       *)
(***************************************************************************)
MaxKeys == 3

MaxPctValue == 3

Key99      == <<"9", "9">>
Key99p0    == <<"9", "9", ".", "0">>
Key99p00   == <<"9", "9", ".", "0", "0">>
Key99p6    == <<"9", "9", ".", "0", "0", "0", "0", "0", "0">>
Key98p5    == <<"9", "8", ".", "5">>
Key99p5    == <<"9", "9", ".", "5">>
Key95p6    == <<"9", "5", ".", "0", "0", "0", "0", "0", "0">>
Key50p6    == <<"5", "0", ".", "0", "0", "0", "0", "0", "0">>
KeyText    == <<"m", "a", "x">>

PctKeys == {Key99, Key99p0, Key99p00, Key99p6, Key98p5, Key99p5, Key95p6, Key50p6, KeyText}

\* The targets parse_fio_json asks for: 99.0, 95.0, 50.0.
PctTargets == {99, 95, 50}

PctMaps ==
    UNION {[K -> 1..MaxPctValue] : K \in {S \in SUBSET PctKeys : Cardinality(S) <= MaxKeys}}

(***************************************************************************)
(* Inputs of the file dispatcher                                           *)
(***************************************************************************)
MaxTokens == 2

MaxJobs == 2

JsonName == <<"o", ".", "j", "s", "o", "n">>

RunnerDir == FioRunnerDash \o <<"a", "1">>

TaskDir == Task3 \o <<"2", "0", "2", "5", "0", "1", "0", "2", "T", "0", "3", "0", "4", "0", "5", "Z">>

RootDir == << <<"r">> >>

FilePaths ==
    {[root |-> RootDir, rel |-> <<TaskDir, RunnerDir, JsonName>>],
     [root |-> RootDir, rel |-> <<JsonName>>],
     [root |-> RootDir, rel |-> << <<"d">>, JsonName>>]}

AvgText == <<"1", "2", "0", ".", "5">>

TextTokens ==
    {[tok |-> "lathdr"],
     [tok |-> "avg", avg |-> AvgText, unit |-> <<"u", "s", "e", "c">>],
     [tok |-> "avg", avg |-> AvgText, unit |-> <<"s", "e", "c">>],
     [tok |-> "avg", avg |-> AvgText, unit |-> <<>>],
     [tok |-> "thr", op |-> <<"r", "e", "a", "d">>, iops |-> <<"1", "0", "0">>,
      bw_value |-> <<"1", "0">>, bw_unit |-> <<"M", "i", "B", "/", "s">>],
     [tok |-> "thr", op |-> <<"w", "r", "i", "t", "e">>, iops |-> <<"5", "0">>,
      bw_value |-> <<"5">>, bw_unit |-> <<"K", "B", "/", "s">>],
     [tok |-> "meta", rw |-> <<"r", "a", "n", "d", "r", "e", "a", "d">>,
      bs |-> <<"4", "k">>, iodepth |-> <<"1", "6">>],
     [tok |-> "other"]}

Texts == SeqsUpTo(TextTokens, MaxTokens)

\* A key of a JSON object that may be absent.
Absent == [absent |-> TRUE]

Field(key, v) == IF "absent" \in DOMAIN v THEN [k \in {} |-> None] ELSE key :> v

Pcts(p50, p95, p99) ==
    JDict((Key50p6 :> JNum(p50)) @@ (Key95p6 :> JNum(p95)) @@ (Key99p6 :> JNum(p99)))

\* The shapes a latency container takes in the inputs.
Containers(mean, pcts) ==
    {Absent, JNum(5), JDict(<<>>),
     JDict([mean |-> JNum(mean)]),
     JDict([percentile |-> pcts]),
     JDict([mean |-> JNum(mean), percentile |-> pcts])}

Direction(clat_ns, clat_us, clat, lat_ns) ==
    JDict(Field("iops", JNum(100)) @@ Field("bw", JNum(2000)) @@ Field("total_ios", JNum(7))
          @@ Field("clat_ns", clat_ns) @@ Field("clat_us", clat_us)
          @@ Field("clat", clat) @@ Field("lat_ns", lat_ns))

\* One job with a read direction, over every combination of the shapes.
LatencyDirections ==
    {Direction(a, b, c, d) :
        a \in Containers(1500000, Pcts(1000000, 2000000, 3000000)),
        b \in Containers(4500, Pcts(4000, 5000, 6000)),
        c \in Containers(7500, Pcts(7000, 8000, 9000)),
        d \in {Absent, JDict([mean |-> JNum(1600000)])}}

GoodDirection ==
    Direction(JDict([mean |-> JNum(1500000), percentile |-> Pcts(1000000, 2000000, 3000000)]),
              Absent, Absent, Absent)

GoodOptions ==
    JDict([rw |-> JStr(<<"r", "a", "n", "d", "r", "w">>), bs |-> JStr(<<"4", "k">>),
           iodepth |-> JStr(<<"1", "6">>), size |-> JStr(<<"1", "G">>)])

Job(name, options, read, write) ==
    JDict(Field("jobname", JStr(name)) @@ Field("job options", options)
          @@ Field("read", read) @@ Field("write", write))

\* Jobs of a document: well formed ones, and ones with a direction or the
\* options that are not a mapping.
StructJobs ==
    {Job(<<"j", "1">>, GoodOptions, GoodDirection, Absent),
     Job(<<"j", "2">>, GoodOptions, GoodDirection, GoodDirection),
     Job(<<"j", "3">>, Absent, Absent, GoodDirection),
     Job(<<"j", "4">>, GoodOptions, JNum(5), GoodDirection),
     Job(<<"j", "5">>, JStr(<<"x">>), GoodDirection, Absent),
     Job(<<"j", "6">>, GoodOptions, Absent, None),
     Job(<<"j", "8">>, GoodOptions, JDict(<<>>), GoodDirection),
     JNum(7)}

\* A direction with the six latency containers.
Direction6(clat_ns, clat_us, clat, lat_ns, lat_us, lat) ==
    JDict(Direction(clat_ns, clat_us, clat, lat_ns).dict
          @@ Field("lat_us", lat_us) @@ Field("lat", lat))

\* The shapes of a container for the mean: missing, a mapping without a mean
\* or a value that is no mapping, and a mapping with a mean of its own.
CompletionShapes(mean) == {Absent, JDict(<<>>), JDict([mean |-> JNum(mean)])}

SubmissionShapes(mean) == {Absent, JNum(5), JDict([mean |-> JNum(mean)])}

MeanDirections ==
    {Direction6(a, b, c, d, e, f) :
        a \in CompletionShapes(1500000) \cup {JDict([mean |-> None])},
        b \in CompletionShapes(4500),
        c \in CompletionShapes(7500),
        d \in SubmissionShapes(1600000),
        e \in SubmissionShapes(4600),
        f \in SubmissionShapes(7600)}

\* A measured value that may be missing, zero, or large.
Measured == {Absent, JNum(0), JNum(5000)}

\* A direction whose counters and latencies may be missing or zero.
MeasuredDirections ==
    {JDict(Field("iops", i) @@ Field("bw", b) @@ Field("total_ios", n)
           @@ Field("clat_ns", c) @@ Field("clat_us", u)) :
        i \in Measured, b \in Measured, n \in Measured,
        c \in {Absent,
               JDict([mean |-> JNum(0), percentile |-> Pcts(0, 0, 0)]),
               JDict([mean |-> JNum(1500000), percentile |-> Pcts(1000000, 2000000, 3000000)])},
        u \in {Absent, JDict([mean |-> JNum(4500), percentile |-> Pcts(4000, 5000, 6000)])}}

\* The runtime of a job and of the global options, and the other descriptors.
RawRuntimes == {Absent, JNum(0), JNum(1000), JNum(1001), JNum(2000)}

GlobalOptions == {Absent, JDict([runtime |-> JNum(60)]), JDict([runtime |-> JNum(3000)])}

DescribedJobs ==
    {JDict(Field("jobname", JStr(<<"j", "1">>))
           @@ Field("job options",
                    JDict(Field("iodepth", d) @@ Field("numjobs", n) @@ Field("size", s)))
           @@ Field("runtime", r)
           @@ Field("read", GoodDirection)) :
        d \in {Absent, JNum(0), JNum(2000)},
        n \in {Absent, JNum(0), JNum(2000)},
        s \in {Absent, JNum(0), JNum(2000)},
        r \in RawRuntimes}

\* Percentile mappings with few labels: a label for 50 only, labels near 99
\* but not equal to it, a label that is no number.
SparseKeys == {Key50p6, Key98p5, Key99, KeyText}

SparseValue(k) ==
    CASE k = Key50p6 -> 4000 [] k = Key98p5 -> 5000 [] k = Key99 -> 6000 [] OTHER -> 7000

SparsePcts == {JDict([k \in K |-> JNum(SparseValue(k))]) : K \in SUBSET SparseKeys \ {{}}}

SparseDirections ==
    {JDict(Field("iops", JNum(100)) @@ Field("clat_ns", a) @@ Field("clat_us", b)) :
        a \in {Absent} \cup {JDict([percentile |-> m]) : m \in SparsePcts},
        b \in {Absent} \cup {JDict([percentiles |-> m]) : m \in SparsePcts}}

Documents ==
    {JDict([jobs |-> JList(q)]) : q \in SeqsUpTo(StructJobs, MaxJobs)}
    \cup {JDict([jobs |-> JList(<<Job(<<"j", "1">>, Absent, d, Absent)>>)]) : d \in LatencyDirections}
    \cup {JDict([jobs |-> JList(<<Job(<<"j", "1">>, Absent, d, Absent)>>)]) : d \in MeanDirections}
    \cup {JDict([jobs |-> JList(<<Job(<<"j", "1">>, Absent, Absent, d)>>)]) : d \in MeasuredDirections}
    \cup {JDict([jobs |-> JList(<<Job(<<"j", "1">>, Absent, d, Absent)>>)]) : d \in SparseDirections}
    \cup {JDict(Field("jobs", JList(<<j>>)) @@ Field("global options", g)) :
             j \in DescribedJobs, g \in GlobalOptions}
    \cup {JDict([version |-> JStr(<<"3">>)]),
          JDict([jobs |-> None]),
          JDict([jobs |-> JNum(5)]),
          JList(<<>>),
          JNum(5)}

\* The raw text of a JSON document can itself hold what the text patterns
\* look for.
DocumentTexts ==
    {<<>>,
     <<[tok |-> "lathdr"], [tok |-> "avg", avg |-> AvgText, unit |-> <<"u", "s", "e", "c">>]>>}

FileContents ==
    {[readable |-> FALSE, json |-> None, text |-> <<>>]}
    \cup {[readable |-> TRUE, json |-> None, text |-> t] : t \in Texts}
    \cup {[readable |-> TRUE, json |-> Some(d), text |-> t] : d \in Documents, t \in DocumentTexts}

(***************************************************************************)
(* Inputs of the rollup                                                    *)
(***************************************************************************)
MaxRows == 6

RunnerA == FioRunnerDash \o <<"a", "1">>

RunnerB == FioRunnerDash \o <<"b", "2">>

\* A row of the table: lat is its mean latency in ms (the percentiles are
\* multiples of it), ios its I/O count.
TableRow(file, task, pattern, runner, op, iops, lat, ios) ==
    [source_file |-> <<"f", file>>,
     task |-> Some(task),
     access_pattern |-> Some(pattern),
     runner |-> runner,
     op |-> op,
     iops |-> Some(RInt(iops)),
     bw_MBps |-> Some(Rat(iops, 100)),
     lat_mean_ms |-> Some(RInt(lat)),
     clat_p99_ms |-> Some(RInt(3 * lat)),
     clat_p95_ms |-> Some(RInt(2 * lat)),
     total_ios |-> Some(ios)]

\* A row of a file for which no task was found.
NoTaskRow == [TableRow("a", Task3, "sequential", Some(RunnerA), "read", 800, 2, 100)
                 EXCEPT !.task = None]

\* A row with an I/O count and no latency.
NoLatencyRow ==
    [TableRow("n", Task6, "sequential", Some(RunnerB), "read", 1000, 1, 400)
        EXCEPT !.lat_mean_ms = None, !.clat_p99_ms = None, !.clat_p95_ms = None]

\* Repeated attempts of two runners on one group, rows of a second access
\* pattern and of the other direction, rows without a runner, a second
\* task, a row without a task and a row without a latency.
TableRows ==
    {TableRow("1", Task3, "sequential", Some(RunnerA), "read", 1000, 1, 100),
     TableRow("2", Task3, "sequential", Some(RunnerA), "read", 1100, 3, 300),
     TableRow("3", Task3, "sequential", Some(RunnerA), "read", 900, 2, 200),
     TableRow("4", Task3, "sequential", Some(RunnerB), "read", 1000, 2, 100),
     TableRow("5", Task3, "sequential", Some(RunnerB), "read", 1100, 2, 100),
     TableRow("6", Task3, "sequential", Some(RunnerB), "read", 900, 2, 100),
     TableRow("1", Task3, "sequential", Some(RunnerA), "write", 500, 4, 100),
     TableRow("7", Task3, "random", Some(RunnerA), "read", 1000, 6, 100),
     TableRow("8", Task3, "random", Some(RunnerB), "read", 400, 8, 100),
     TableRow("9", Task3, "sequential", None, "read", 700, 1, 100),
     TableRow("0", Task3, "random", None, "write", 300, 1, 100),
     TableRow("1", Task6, "sequential", Some(RunnerA), "read", 1000, 1, 100),
     NoTaskRow,
     NoLatencyRow}

(***************************************************************************)
(* Inputs of the size expansion                                            *)
(***************************************************************************)
MaxSizeLen == 3

SizeChars == {"0", "4", "k", "G", "B", ".", " "}

Size256k == <<"2", "5", "6", "k">>

\* The size option of a job: missing, or a string.  For these strings the
\* int(value) that _parse_size_to_bytes falls back to raises whenever the
\* pattern does not match.
SizeValues ==
    {None} \cup {JStr(s) : s \in SeqsUpTo(SizeChars, MaxSizeLen) \cup {Size256k}}

(***************************************************************************)
(* Inputs of the naming conventions                                        *)
(***************************************************************************)
MaxDepth == 3

Stamp == <<"2", "0", "2", "5", "0", "1", "0", "2", "T", "0", "3", "0", "4", "0", "5", "Z">>

\* A match of _RE_TIMESTAMP that strptime rejects (month 13).
BadStamp == <<"2", "0", "2", "5", "1", "3", "0", "2", "T", "0", "3", "0", "4", "0", "5", "Z">>

PlainDir == <<"d">>

\* Segments: a task directory with a timestamp, a task directory without,
\* a runner directory, a directory of no convention, a file name, and a
\* directory named by a timestamp that is not a date.
NameSegments == {Task3 \o Stamp, Task6, RunnerDir, PlainDir, JsonName, BadStamp}

NameRoots == {RootDir, << <<"r">> \o Stamp >>}

NamePaths ==
    {[root |-> r, rel |-> q] :
        r \in NameRoots, q \in SeqsUpTo(NameSegments, MaxDepth) \ {<<>>}}

(***************************************************************************)
(* Inputs of the unit converters                                           *)
(***************************************************************************)
MaxUnit == 2

\* Negative, zero and positive values, integers and fractions, and None.
UnitNumbers == {Rat(n, d) : n \in -1..MaxUnit, d \in {1, 3}}

\* With each value x also 1000 * x, the same duration in the smaller unit.
UnitValues ==
    {None} \cup {Some(x) : x \in UnitNumbers}
           \cup {Some(RMul(RInt(1000), x)) : x \in UnitNumbers}

(***************************************************************************)
(* Inputs of main                                                          *)
(***************************************************************************)
MaxFiles == 3

OtherJsonName == <<"p", ".", "j", "s", "o", "n">>

OtherTaskDir == Task6 \o <<"2", "0", "2", "5", "0", "1", "0", "2", "T", "0", "3", "0", "4", "0", "5", "Z">>

\* Two results of one runner of one task, a result of another task, a file
\* that cannot be read and a file neither parser accepts.
MainFiles ==
    {[path |-> [root |-> RootDir, rel |-> <<TaskDir, RunnerDir, JsonName>>],
      content |-> [readable |-> TRUE, text |-> <<>>,
                   json |-> Some(JDict([jobs |-> JList(<<Job(<<"j", "2">>, GoodOptions, GoodDirection, GoodDirection)>>)]))]],
     [path |-> [root |-> RootDir, rel |-> <<TaskDir, RunnerDir, OtherJsonName>>],
      content |-> [readable |-> TRUE, text |-> <<>>,
                   json |-> Some(JDict([jobs |-> JList(<<Job(<<"j", "1">>, GoodOptions, GoodDirection, Absent)>>)]))]],
     [path |-> [root |-> RootDir, rel |-> <<OtherTaskDir, RunnerB, JsonName>>],
      content |-> [readable |-> TRUE, text |-> <<>>,
                   json |-> Some(JDict([jobs |-> JList(<<Job(<<"j", "1">>, GoodOptions, Absent, GoodDirection)>>)]))]],
     [path |-> [root |-> RootDir, rel |-> << <<"d">>, JsonName>>],
      content |-> [readable |-> FALSE, json |-> None, text |-> <<>>]],
     [path |-> [root |-> RootDir, rel |-> <<JsonName>>],
      content |-> [readable |-> TRUE, json |-> None,
                   text |-> <<[tok |-> "thr", op |-> <<"r", "e", "a", "d">>, iops |-> <<"1", "0", "0">>,
                               bw_value |-> <<"1", "0">>, bw_unit |-> <<"M", "i", "B", "/", "s">>]>>]]}

\* What iter_files can yield: each file once, in the order of the walk.
Batches ==
    {q \in SeqsUpTo(MainFiles, MaxFiles) : \A i, j \in 1..Len(q) : i # j => q[i] # q[j]}

(***************************************************************************)
(* Inputs of the aggregation passes                                        *)
(***************************************************************************)
MaxPasses == 2

\* Tasks with the suffix, with it twice, without it, and one that agrees
\* with another on its first 31 characters.
StampedTask == Task3 \o <<"x", "-">> \o Stamp

TwiceStampedTask == StampedTask \o <<"-">> \o Stamp

BareTask == Task3 \o <<"x">>

LongTask == StampedTask \o <<"-", "2", "/">>

PassRows ==
    {TableRow("1", StampedTask, "sequential", Some(RunnerA), "read", 1000, 1, 100),
     TableRow("2", TwiceStampedTask, "sequential", Some(RunnerA), "read", 1100, 3, 300),
     TableRow("3", BareTask, "sequential", Some(RunnerB), "read", 900, 2, 200),
     TableRow("4", LongTask, "random", Some(RunnerA), "write", 500, 4, 100),
     TableRow("5", Task6 \o Stamp, "sequential", Some(RunnerB), "write", 400, 8, 100),
     NoTaskRow}

(***************************************************************************)
(* Inputs of the sheet names                                               *)
(***************************************************************************)
MaxCalls == 4

Xs(n) == [i \in 1..n |-> "x"]

\* Names that meet after the invalid characters are replaced, names that are
\* equal after the cut to 31 characters, and names that are the candidates
\* the loop makes for another name.
SheetNames ==
    {<<"a", "b">>, <<"a", "/", "b">>, <<"a", "_", "b">>, <<"a", "b", "_", "2">>,
     Xs(31), Xs(32), Xs(29) \o <<"_", "2">>}

(***************************************************************************)
(* Specifications                                                          *)
(***************************************************************************)
PctIdle ==
    /\ percentiles = <<>>
    /\ target = 0
    /\ found_key = None
    /\ pct_pc = "idle"

SortIdle ==
    /\ task_col = <<>>
    /\ sorted_col = <<>>
    /\ sort_pc = "idle"
    /\ detailed_col = <<>>
    /\ detailed_pc = "idle"

FileIdle ==
    /\ file_path = [root |-> <<>>, rel |-> <<>>]
    /\ file_content = [readable |-> FALSE, json |-> None, text |-> <<>>]
    /\ file_rows = <<>>
    /\ text_result = None
    /\ file_stderr = 0
    /\ file_pc = "idle"

AggIdle ==
    /\ df = {}
    /\ summary = <<>>
    /\ agg_pc = "idle"

SizeIdle ==
    /\ size_value = None
    /\ parsed_bytes = None
    /\ size_bytes = None
    /\ size_pc = "idle"

UnitIdle ==
    /\ unit_ns = None
    /\ unit_us = None
    /\ unit_kbps = None
    /\ ns_ms = None
    /\ us_ms = None
    /\ kbps_MBps = None
    /\ unit_done = {"idle"}

MainIdle ==
    /\ input_isdir = FALSE
    /\ main_files = <<>>
    /\ main_next = 0
    /\ all_rows = <<>>
    /\ main_stderr = 0
    /\ main_df = None
    /\ workbook = None
    /\ exit_status = None
    /\ main_pc = "idle"

PassIdle ==
    /\ pass_df = {}
    /\ remove_suffix = FALSE
    /\ detailed_sheets = FALSE
    /\ pass_summaries = <<>>
    /\ pass_pc = "idle"

SheetIdle ==
    /\ sheet_used = {}
    /\ sheet_returned = <<>>
    /\ sheet_base = <<>>
    /\ sheet_idx = 0
    /\ sheet_pc = "idle"

\* The variables of the other parts, for the specification of one part.
RestIdle == UnitIdle /\ MainIdle /\ PassIdle /\ SheetIdle

NameIdle ==
    /\ name_path = [root |-> <<>>, rel |-> <<>>]
    /\ name_task = None
    /\ name_runner = None
    /\ name_timestamp = None
    /\ name_pc = "idle"

InitSort ==
    /\ RestIdle
    /\ SizeIdle
    /\ NameIdle
    /\ PctIdle
    /\ FileIdle
    /\ AggIdle
    /\ task_col \in SeqsUpTo(TaskNames, MaxTasks)
    /\ sorted_col = <<>>
    /\ sort_pc = "call"
    /\ detailed_col = <<>>
    /\ detailed_pc = "call"

\* The summary sheet: summary_sorted = _sort_df_by_task_order(summary_df).
SortByTaskOrder ==
    /\ sort_pc = "call"
    /\ sorted_col' = _sort_df_by_task_order(task_col)
    /\ sort_pc' = "done"
    /\ UNCHANGED <<task_col, detailed_col, detailed_pc, pctVars, fileVars, aggVars, sizeVars, nameVars, unitVars, mainVars, passVars, sheetVars>>

\* The summary_detailed sheet: its own sort by degree.
SortSummaryDetailed ==
    /\ detailed_pc = "call"
    /\ detailed_col' = SortDetailed(task_col)
    /\ detailed_pc' = "done"
    /\ UNCHANGED <<task_col, sorted_col, sort_pc, pctVars, fileVars, aggVars, sizeVars, nameVars, unitVars, mainVars, passVars, sheetVars>>

NextSort == SortByTaskOrder \/ SortSummaryDetailed

SpecSort == InitSort /\ [][NextSort]_vars

InitPct ==
    /\ RestIdle
    /\ SizeIdle
    /\ NameIdle
    /\ SortIdle
    /\ FileIdle
    /\ AggIdle
    /\ percentiles \in PctMaps
    /\ target \in PctTargets
    /\ found_key = None
    /\ pct_pc = "call"

\* A call _find_percentile_key(percentiles, target).
FindPercentileKey ==
    /\ pct_pc = "call"
    /\ found_key' = _find_percentile_key(percentiles, target)
    /\ pct_pc' = "done"
    /\ UNCHANGED <<percentiles, target, sortVars, fileVars, aggVars, sizeVars, nameVars, unitVars, mainVars, passVars, sheetVars>>

NextPct == FindPercentileKey

SpecPct == InitPct /\ [][NextPct]_vars

InitFile ==
    /\ RestIdle
    /\ SizeIdle
    /\ NameIdle
    /\ SortIdle
    /\ PctIdle
    /\ AggIdle
    /\ file_path \in FilePaths
    /\ file_content \in FileContents
    /\ file_rows = <<>>
    /\ text_result = None
    /\ file_stderr = 0
    /\ file_pc = "call"

\* A call parse_file(path, input_root), as main makes for each file found.
ParseFile ==
    /\ file_pc = "call"
    /\ LET r == parse_file(file_path, file_content)
       IN  /\ file_rows' = r.rows
           /\ text_result' = r.text_result
           /\ file_stderr' = file_stderr + r.stderr
    /\ file_pc' = "done"
    /\ UNCHANGED <<file_path, file_content, sortVars, pctVars, aggVars, sizeVars, nameVars, unitVars, mainVars, passVars, sheetVars>>

NextFile == ParseFile

SpecFile == InitFile /\ [][NextFile]_vars

InitAgg ==
    /\ RestIdle
    /\ SizeIdle
    /\ NameIdle
    /\ SortIdle
    /\ PctIdle
    /\ FileIdle
    /\ df = {}
    /\ summary = <<>>
    /\ agg_pc = "collect"

\* main: all_rows.extend(parse_file(...)), one row at a time.
CollectRow ==
    /\ agg_pc = "collect"
    /\ Cardinality(df) < MaxRows
    /\ \E r \in TableRows \ df : df' = df \cup {r}
    /\ UNCHANGED <<summary, agg_pc, sortVars, pctVars, fileVars, sizeVars, nameVars, unitVars, mainVars, passVars, sheetVars>>

\* main: export_to_excel(rows_to_dataframe(all_rows), ...).
ExportToExcel ==
    /\ agg_pc = "collect"
    /\ summary' = export_to_excel(df)
    /\ agg_pc' = "done"
    /\ UNCHANGED <<df, sortVars, pctVars, fileVars, sizeVars, nameVars, unitVars, mainVars, passVars, sheetVars>>

NextAgg == CollectRow \/ ExportToExcel

SpecAgg == InitAgg /\ [][NextAgg]_vars

InitSize ==
    /\ RestIdle
    /\ SortIdle
    /\ PctIdle
    /\ FileIdle
    /\ AggIdle
    /\ NameIdle
    /\ size_value \in SizeValues
    /\ parsed_bytes = None
    /\ size_bytes = None
    /\ size_pc = "call"

\* A call _parse_size_to_bytes(value), as _parse_bs_to_bytes makes.
ParseSizeToBytes ==
    /\ size_pc = "call"
    /\ parsed_bytes' = _parse_size_to_bytes(size_value)
    /\ size_pc' = "parsed"
    /\ UNCHANGED <<size_value, size_bytes, sortVars, pctVars, fileVars, aggVars, nameVars, unitVars, mainVars, passVars, sheetVars>>

\* parse_fio_json: size_bytes = _to_int(size), else _parse_size_to_bytes(size).
JobSizeBytes ==
    /\ size_pc = "parsed"
    /\ size_bytes' = SizeBytesOf(size_value)
    /\ size_pc' = "done"
    /\ UNCHANGED <<size_value, parsed_bytes, sortVars, pctVars, fileVars, aggVars, nameVars, unitVars, mainVars, passVars, sheetVars>>

NextSize == ParseSizeToBytes \/ JobSizeBytes

SpecSize == InitSize /\ [][NextSize]_vars

InitName ==
    /\ RestIdle
    /\ SortIdle
    /\ PctIdle
    /\ FileIdle
    /\ AggIdle
    /\ SizeIdle
    /\ name_path \in NamePaths
    /\ name_task = None
    /\ name_runner = None
    /\ name_timestamp = None
    /\ name_pc = "call"

\* parse_file: task = compute_task_name(path, input_root).
ComputeTaskName ==
    /\ name_pc = "call"
    /\ name_task' = compute_task_name(name_path)
    /\ name_pc' = "task"
    /\ UNCHANGED <<name_path, name_runner, name_timestamp,
                   sortVars, pctVars, fileVars, aggVars, sizeVars, unitVars, mainVars, passVars, sheetVars>>

\* parse_file: runner = compute_runner_name(path, input_root).
ComputeRunnerName ==
    /\ name_pc = "task"
    /\ name_runner' = compute_runner_name(name_path)
    /\ name_pc' = "runner"
    /\ UNCHANGED <<name_path, name_task, name_timestamp,
                   sortVars, pctVars, fileVars, aggVars, sizeVars, unitVars, mainVars, passVars, sheetVars>>

\* The extractors: timestamp = compute_timestamp_from_path(source_file).
ComputeTimestampFromPath ==
    /\ name_pc = "runner"
    /\ name_timestamp' = compute_timestamp_from_path(name_path)
    /\ name_pc' = "done"
    /\ UNCHANGED <<name_path, name_task, name_runner,
                   sortVars, pctVars, fileVars, aggVars, sizeVars, unitVars, mainVars, passVars, sheetVars>>

NextName == ComputeTaskName \/ ComputeRunnerName \/ ComputeTimestampFromPath

SpecName == InitName /\ [][NextName]_vars

InitUnit ==
    /\ SortIdle
    /\ PctIdle
    /\ FileIdle
    /\ AggIdle
    /\ SizeIdle
    /\ NameIdle
    /\ MainIdle
    /\ PassIdle
    /\ SheetIdle
    /\ unit_ns \in UnitValues
    /\ unit_us \in UnitValues
    /\ unit_kbps \in UnitValues
    /\ ns_ms = None
    /\ us_ms = None
    /\ kbps_MBps = None
    /\ unit_done = {}

\* A call _ns_to_ms(ns_value).
NsToMs ==
    /\ "idle" \notin unit_done
    /\ "ns" \notin unit_done
    /\ ns_ms' = _ns_to_ms(unit_ns)
    /\ unit_done' = unit_done \cup {"ns"}
    /\ UNCHANGED <<unit_ns, unit_us, unit_kbps, us_ms, kbps_MBps,
                   sortVars, pctVars, fileVars, aggVars, sizeVars, nameVars,
                   mainVars, passVars, sheetVars>>

\* A call _us_to_ms(us_value).
UsToMs ==
    /\ "idle" \notin unit_done
    /\ "us" \notin unit_done
    /\ us_ms' = _us_to_ms(unit_us)
    /\ unit_done' = unit_done \cup {"us"}
    /\ UNCHANGED <<unit_ns, unit_us, unit_kbps, ns_ms, kbps_MBps,
                   sortVars, pctVars, fileVars, aggVars, sizeVars, nameVars,
                   mainVars, passVars, sheetVars>>

\* A call _kbps_to_MBps(kb_per_s).
KbpsToMBps ==
    /\ "idle" \notin unit_done
    /\ "kbps" \notin unit_done
    /\ kbps_MBps' = _kbps_to_MBps(unit_kbps)
    /\ unit_done' = unit_done \cup {"kbps"}
    /\ UNCHANGED <<unit_ns, unit_us, unit_kbps, ns_ms, us_ms,
                   sortVars, pctVars, fileVars, aggVars, sizeVars, nameVars,
                   mainVars, passVars, sheetVars>>

NextUnit == NsToMs \/ UsToMs \/ KbpsToMBps

SpecUnit == InitUnit /\ [][NextUnit]_vars

InitSheet ==
    /\ SortIdle
    /\ PctIdle
    /\ FileIdle
    /\ AggIdle
    /\ SizeIdle
    /\ NameIdle
    /\ UnitIdle
    /\ MainIdle
    /\ PassIdle
    /\ sheet_used = {}
    /\ sheet_returned = <<>>
    /\ sheet_base = <<>>
    /\ sheet_idx = 0
    /\ sheet_pc = "ready"

\* A call sanitize_sheet_name(name, used) up to its first return or to the
\* entry of its loop.
SanitizeSheetName ==
    /\ sheet_pc = "ready"
    /\ Len(sheet_returned) < MaxCalls
    /\ \E name \in SheetNames :
          IF SafeName(name) \notin sheet_used
          THEN /\ sheet_used' = sheet_used \cup {SafeName(name)}
               /\ sheet_returned' = Append(sheet_returned, SafeName(name))
               /\ UNCHANGED <<sheet_base, sheet_idx, sheet_pc>>
          ELSE /\ sheet_base' = SafeName(name)
               /\ sheet_idx' = 1
               /\ sheet_pc' = "loop"
               /\ UNCHANGED <<sheet_used, sheet_returned>>
    /\ UNCHANGED <<sortVars, pctVars, fileVars, aggVars, sizeVars, nameVars,
                   unitVars, mainVars, passVars>>

\* One pass of the loop of sanitize_sheet_name.
SanitizeLoop ==
    /\ sheet_pc = "loop"
    /\ IF Candidate(sheet_base, sheet_idx + 1) \notin sheet_used
       THEN /\ sheet_used' = sheet_used \cup {Candidate(sheet_base, sheet_idx + 1)}
            /\ sheet_returned' = Append(sheet_returned, Candidate(sheet_base, sheet_idx + 1))
            /\ sheet_base' = <<>>
            /\ sheet_idx' = 0
            /\ sheet_pc' = "ready"
       ELSE /\ sheet_idx' = sheet_idx + 1
            /\ UNCHANGED <<sheet_used, sheet_returned, sheet_base, sheet_pc>>
    /\ UNCHANGED <<sortVars, pctVars, fileVars, aggVars, sizeVars, nameVars,
                   unitVars, mainVars, passVars>>

NextSheet == SanitizeSheetName \/ SanitizeLoop

SpecSheet == InitSheet /\ [][NextSheet]_vars

\* The interpreter runs a call to its end: a pass of the loop that can be
\* made is made.
SpecSheetLive == SpecSheet /\ WF_vars(SanitizeLoop)

InitMain ==
    /\ SizeIdle
    /\ NameIdle
    /\ SortIdle
    /\ PctIdle
    /\ FileIdle
    /\ AggIdle
    /\ UnitIdle
    /\ PassIdle
    /\ SheetIdle
    /\ input_isdir \in BOOLEAN
    /\ main_files = <<>>
    /\ main_next = 0
    /\ all_rows = <<>>
    /\ main_stderr = 0
    /\ main_df = None
    /\ workbook = None
    /\ exit_status = None
    /\ main_pc = "start"

\* main, lines 1517-1526, when the scan root is not a directory.
RejectInput ==
    /\ main_pc = "start"
    /\ ~input_isdir
    /\ main_stderr' = main_stderr + 1
    /\ exit_status' = Some(2)
    /\ main_pc' = "done"
    /\ UNCHANGED <<input_isdir, main_files, main_next, all_rows, main_df, workbook>>
    /\ UNCHANGED <<sortVars, pctVars, fileVars, aggVars, sizeVars, nameVars, unitVars, passVars, sheetVars>>

\* main, lines 1522-1532: files = list(iter_files(...)), and the early
\* return when there are none.
ListFiles ==
    /\ main_pc = "start"
    /\ input_isdir
    /\ \E batch \in Batches :
          /\ main_files' = batch
          /\ IF batch = <<>>
             THEN /\ main_stderr' = main_stderr + 1
                  /\ workbook' = Some(Workbook({}))
                  /\ exit_status' = Some(0)
                  /\ main_next' = main_next
                  /\ main_pc' = "done"
             ELSE /\ main_next' = 1
                  /\ main_pc' = "parse"
                  /\ UNCHANGED <<main_stderr, workbook, exit_status>>
    /\ UNCHANGED <<input_isdir, all_rows, main_df>>
    /\ UNCHANGED <<sortVars, pctVars, fileVars, aggVars, sizeVars, nameVars, unitVars, passVars, sheetVars>>

\* One pass of the loop of lines 1533-1535.  An exception leaving parse_file
\* would leave main: the interpreter ends with status 1.
Extend(r) ==
    IF Raised(r)
    THEN /\ exit_status' = Some(1)
         /\ main_pc' = "done"
         /\ UNCHANGED <<all_rows, main_stderr, main_next>>
    ELSE /\ all_rows' = all_rows \o r.rows
         /\ main_stderr' = main_stderr + r.stderr
         /\ main_next' = main_next + 1
         /\ UNCHANGED <<exit_status, main_pc>>

ParseNextFile ==
    /\ main_pc = "parse"
    /\ main_next <= Len(main_files)
    /\ Extend(parse_file(main_files[main_next].path, main_files[main_next].content))
    /\ UNCHANGED <<input_isdir, main_files, main_df, workbook>>
    /\ UNCHANGED <<sortVars, pctVars, fileVars, aggVars, sizeVars, nameVars, unitVars, passVars, sheetVars>>

\* main, lines 1537-1541, after the loop.
Export ==
    /\ main_pc = "parse"
    /\ main_next > Len(main_files)
    /\ main_df' = Some(rows_to_dataframe(all_rows))
    /\ workbook' = Some(Workbook(rows_to_dataframe(all_rows)))
    /\ exit_status' = Some(0)
    /\ main_pc' = "done"
    /\ UNCHANGED <<input_isdir, main_files, main_next, all_rows, main_stderr>>
    /\ UNCHANGED <<sortVars, pctVars, fileVars, aggVars, sizeVars, nameVars, unitVars, passVars, sheetVars>>

NextMain == RejectInput \/ ListFiles \/ ParseNextFile \/ Export

SpecMain == InitMain /\ [][NextMain]_vars

InitPass ==
    /\ SizeIdle
    /\ NameIdle
    /\ SortIdle
    /\ PctIdle
    /\ FileIdle
    /\ AggIdle
    /\ UnitIdle
    /\ MainIdle
    /\ SheetIdle
    /\ pass_df \in SUBSET PassRows
    /\ remove_suffix \in BOOLEAN
    /\ detailed_sheets \in BOOLEAN
    /\ pass_summaries = <<>>
    /\ pass_pc = "ready"

\* The registry of the writer of the call before, when there is one.
LastRegistry(outputs) ==
    IF outputs = <<>> THEN {} ELSE outputs[Len(outputs)].used

\* A call export_to_excel(df, output, remove_suffix, detailed_sheets) on the
\* table of the caller.
AggregationPass ==
    /\ pass_pc = "ready"
    /\ Len(pass_summaries) < MaxPasses
    /\ pass_summaries' = Append(pass_summaries,
                                ExportPass(pass_df, remove_suffix, detailed_sheets,
                                           WriterRegistry(LastRegistry(pass_summaries))))
    /\ pass_df' = CallerTable(pass_df, remove_suffix)
    /\ UNCHANGED <<remove_suffix, detailed_sheets, pass_pc>>
    /\ UNCHANGED <<sortVars, pctVars, fileVars, aggVars, sizeVars, nameVars, unitVars, mainVars, sheetVars>>

NextPass == AggregationPass

SpecPass == InitPass /\ [][NextPass]_vars

(***************************************************************************)
(* Claims about the task order                                             *)
(***************************************************************************)
RecognizedDegrees == {3, 6, 9, 12, 15}

DegreeOf(name) == _extract_parallel_degree(Some(name))

Recognized(name) == IsSome(DegreeOf(name)) /\ DegreeOf(name).some \in RecognizedDegrees

\* Recognized tasks come before all others, in ascending degree.
RecognizedFirstAscending(col) ==
    \A i, j \in 1..Len(col) :
        i < j =>
            /\ Recognized(col[j]) => Recognized(col[i])
            /\ Recognized(col[i]) /\ Recognized(col[j])
                  => DegreeOf(col[i]).some <= DegreeOf(col[j]).some

SameTasks(a, b) ==
    /\ Len(a) = Len(b)
    /\ \A t \in TaskNames :
          Cardinality({i \in 1..Len(a) : a[i] = t}) = Cardinality({i \in 1..Len(b) : b[i] = t})

\* C8: in every table sorted by task order (the summary sheet and the
\* summary_detailed sheet), the tasks whose degree is one of 3, 6, 9, 12, 15
\* come before every other task and appear in ascending degree; the sort
\* only rearranges the rows.
C8_RecognizedFirst ==
    /\ sort_pc = "done"
          => RecognizedFirstAscending(sorted_col) /\ SameTasks(sorted_col, task_col)
    /\ detailed_pc = "done"
          => RecognizedFirstAscending(detailed_col) /\ SameTasks(detailed_col, task_col)

\* C8 witness: parallel-6, parallel-3, parallel-20 came out as 3, 6, 20.
C8_Witness ==
    /\ sort_pc = "done"
    /\ task_col = <<Task6, Task3, Task20>>
    /\ sorted_col = <<Task3, Task6, Task20>>

\* C9 as stated: among the tasks whose degree is not recognized, a task with
\* a smaller name never comes after one with a larger name.
C9_UnrecognizedByName ==
    sort_pc = "done" =>
        \A i, j \in 1..Len(sorted_col) :
            i < j /\ ~Recognized(sorted_col[i]) /\ ~Recognized(sorted_col[j])
                => ~StrLess(sorted_col[j], sorted_col[i])

DegreeOrBillion(name) ==
    IF IsSome(DegreeOf(name)) THEN DegreeOf(name).some ELSE 10^9

\* C9 amended: among the tasks whose degree is not recognized, the order is
\* by the extracted degree (10^9 when the name has none), and by name only
\* among tasks of equal degree.
C9_UnrecognizedByDegreeThenName ==
    sort_pc = "done" =>
        \A i, j \in 1..Len(sorted_col) :
            i < j /\ ~Recognized(sorted_col[i]) /\ ~Recognized(sorted_col[j])
                => \/ DegreeOrBillion(sorted_col[i]) < DegreeOrBillion(sorted_col[j])
                   \/ /\ DegreeOrBillion(sorted_col[i]) = DegreeOrBillion(sorted_col[j])
                      /\ ~StrLess(sorted_col[j], sorted_col[i])

\* C9 witness: parallel-20 and parallel-4 came out with the smaller degree
\* first although its name is the larger one.
C9_Witness ==
    /\ sort_pc = "done"
    /\ task_col = <<Task20, Task4, TaskAlpha>>
    /\ sorted_col = <<Task4, Task20, TaskAlpha>>

(***************************************************************************)
(* Claims about the percentile resolver                                    *)
(***************************************************************************)
Parseable(k) == IsSome(ParseFloat(k))

Distance(k, t) == RAbs(RSub(ParseFloat(k).some, RInt(t)))

\* k is a parseable key of the mapping nearest to t; among equally near keys
\* it is the smallest string.
NearestKey(pcts, t, k) ==
    /\ k \in DOMAIN pcts
    /\ Parseable(k)
    /\ \A o \in DOMAIN pcts :
          Parseable(o) /\ o # k =>
              \/ RLess(Distance(k, t), Distance(o, t))
              \/ Distance(k, t) = Distance(o, t) /\ StrLess(k, o)

\* The result of trying the key `first`, then the six-decimal key, then the
\* nearest parseable key.
ResolvedInOrder(first) ==
    pct_pc = "done" =>
        IF first \in DOMAIN percentiles THEN found_key = Some(first)
        ELSE IF Format6(target) \in DOMAIN percentiles THEN found_key = Some(Format6(target))
        ELSE IF \E k \in DOMAIN percentiles : Parseable(k)
             THEN IsSome(found_key) /\ NearestKey(percentiles, target, found_key.some)
             ELSE found_key = None

\* C10 as stated: the first key tried is the bare number of the target ("99"
\* for 99.0), then the six-decimal key, then the nearest parseable key.
C10_BareNumberFirst == ResolvedInOrder(StrOfInt(target))

\* C10 amended: the first key tried is str(target), which for the float
\* targets is "99.0", then the six-decimal key "99.000000", then the nearest
\* parseable key (the smallest string among equally near ones); a key whose
\* value equals the target is always chosen over one that is only near, so
\* the mapping {"99": 3} resolves to 3 for target 99.0 (by the nearest step).
C10_StrOfFloatFirst ==
    /\ ResolvedInOrder(StrOfFloat(target))
    /\ pct_pc = "done" /\ (\E k \in DOMAIN percentiles : Parseable(k) /\ Distance(k, target) = RInt(0))
          => IsSome(found_key) /\ Distance(found_key.some, target) = RInt(0)
    /\ pct_pc = "done" /\ target = 99 /\ DOMAIN percentiles = {Key99}
          => found_key = Some(Key99)

\* C10 witness: {"99": 3} with target 99.0 resolved to the key "99", value 3.
C10_Witness ==
    /\ pct_pc = "done"
    /\ target = 99
    /\ DOMAIN percentiles = {Key99}
    /\ percentiles[Key99] = 3
    /\ found_key = Some(Key99)
    /\ percentiles[found_key.some] = 3

\* C11: the resolver returns no key if and only if no key of the mapping
\* parses as a number, and a key it returns is a key of the mapping.
C11_NoMatchIffNoNumericKey ==
    pct_pc = "done" =>
        /\ IsNone(found_key) <=> (\A k \in DOMAIN percentiles : ~Parseable(k))
        /\ IsSome(found_key) => found_key.some \in DOMAIN percentiles

\* C11 witness: of a text label and the label "98.5", neither an exact match
\* for 99.0, the resolver returned "98.5".
C11_Witness ==
    /\ pct_pc = "done"
    /\ target = 99
    /\ DOMAIN percentiles = {KeyText, Key98p5}
    /\ found_key = Some(Key98p5)

(***************************************************************************)
(* Claims about the unit converters                                        *)
(***************************************************************************)
\* out is the optional value x / k: absent for an absent x, else the value
\* whose product by k is x.
IsQuotient(out, x, k) ==
    IF IsNone(x) THEN IsNone(out)
    ELSE IsSome(out) /\ RMul(out.some, RInt(k)) = x.some

UnitPowers == [k |-> 10, m |-> 20, g |-> 30, t |-> 40, p |-> 50]

\* s without one trailing B or b.
WithoutB(s) ==
    IF s # <<>> /\ s[Len(s)] \in {"B", "b"} THEN SubSeq(s, 1, Len(s) - 1) ELSE s

\* The byte count a size text denotes, as [num, power] for num * 2^power: a
\* decimal integer, or a decimal integer and a unit letter, with an optional
\* trailing B and blanks around; None for any other text.
Denoted(s) ==
    LET t    == WithoutB(Strip(s))
        body == IF t = <<>> THEN <<>> ELSE SubSeq(t, 1, Len(t) - 1)
    IN  IF t # <<>> /\ AllDigits(t) THEN Some([num |-> IntOfDigits(t), power |-> 0])
        ELSE IF /\ body # <<>>
                /\ AllDigits(body)
                /\ LowerChar(t[Len(t)]) \in DOMAIN UnitPowers
             THEN Some([num |-> IntOfDigits(body),
                        power |-> UnitPowers[LowerChar(t[Len(t)])]])
        ELSE None

DenotedBy(value) == IF IsNone(value) THEN None ELSE Denoted(value.str)

\* C12: the size expansion gives the integer times 2^10 .. 2^50 for an
\* integer with a unit letter k/m/g/t/p (optional trailing B), the integer
\* for a bare integer string, and nothing for an absent or unparseable
\* string, for the parser itself as for the size_bytes of a row: "4G" gives
\* 4*2^30 and "256k" gives 256*2^10.
C12_SizeExpansion ==
    size_pc = "done" =>
        /\ parsed_bytes = DenotedBy(size_value)
        /\ size_bytes = DenotedBy(size_value)
        /\ size_value = JStr(<<"4", "G">>) => size_bytes = Some([num |-> 4, power |-> 30])
        /\ size_value = JStr(Size256k) => size_bytes = Some([num |-> 256, power |-> 10])

(***************************************************************************)
(* Claims about the structured extractor and the file dispatcher           *)
(***************************************************************************)
\* The file held a JSON document and parse_file returned what parse_fio_json
\* gave for it.
ReturnedStructured ==
    /\ file_pc = "done"
    /\ file_content.readable
    /\ IsSome(file_content.json)
    /\ IsNone(text_result)

Document == file_content.json.some

\* The directions of the jobs of a document, in the order of their rows.
DirectionsOf(data) ==
    Concat([i \in 1..Len(data.dict["jobs"].list) |->
               LET job == data.dict["jobs"].list[i]
               IN  SelectSeq(<<[jobname |-> Get(job, "jobname"), op |-> "read", data |-> Get(job, "read")],
                               [jobname |-> Get(job, "jobname"), op |-> "write", data |-> Get(job, "write")]>>,
                             LAMBDA d : HasKey(job, d.op))])

CompletionContainers == {"clat_ns", "clat_us", "clat"}

HasPercentile(row) ==
    IsSome(row.clat_p99_ms) \/ IsSome(row.clat_p95_ms) \/ IsSome(row.clat_p50_ms)

\* The mean of the row is the converted mean of container c.
MeanFrom(op_data, c, row) ==
    /\ IsDict(Get(op_data, c))
    /\ HasKey(Get(op_data, c), "mean")
    /\ row.lat_mean_ms = ToMs(c, _to_float(Get(Get(op_data, c), "mean")))

\* The percentiles of the row are the converted percentiles of container c.
PercentilesFrom(op_data, c, row) ==
    /\ IsDict(Get(op_data, c))
    /\ IsDict(Get(Get(op_data, c), "percentile"))
    /\ LET pcts == Get(Get(op_data, c), "percentile").dict
       IN  /\ row.clat_p99_ms = ToMs(c, _to_float(pcts[Key99p6]))
           /\ row.clat_p95_ms = ToMs(c, _to_float(pcts[Key95p6]))
           /\ row.clat_p50_ms = ToMs(c, _to_float(pcts[Key50p6]))

\* C2: in every row of the structured extractor, the percentiles are read
\* from the completion-latency container (clat_ns, clat_us or clat) that
\* supplied the latency mean of the row.
C2_PercentilesFromMeanContainer ==
    (ReturnedStructured /\ file_rows # <<>>) =>
        \A k \in 1..Len(file_rows) :
            \A c \in CompletionContainers :
                (MeanFrom(DirectionsOf(Document)[k].data, c, file_rows[k]) /\ HasPercentile(file_rows[k]))
                    => PercentilesFrom(DirectionsOf(Document)[k].data, c, file_rows[k])

\* parse_file called the text extractor.
TextTried == file_pc = "done" /\ IsSome(text_result)

NoThroughputLine(text) == \A i \in 1..Len(text) : text[i].tok # "thr"

ConvertibleUnits ==
    {<<"n", "s">>, <<"n", "s", "e", "c">>, <<"u", "s">>, <<"u", "s", "e", "c">>,
     <<"m", "s">>, <<"m", "s", "e", "c">>}

\* A latency header is followed by an average with a unit, and every average
\* with a unit has one of the units that convert to milliseconds.
LatencyFound(text) ==
    /\ \E i, j \in 1..Len(text) :
          i < j /\ text[i].tok = "lathdr" /\ text[j].tok = "avg" /\ text[j].unit # <<>>
    /\ \A j \in 1..Len(text) :
          (text[j].tok = "avg" /\ text[j].unit # <<>>) => text[j].unit \in ConvertibleUnits

\* C3: for text without a read:/write: line in which the latency scan finds
\* an average latency, the text extractor returns exactly one row, with
\* op = unknown, the latency in milliseconds, and no IOPS and no bandwidth.
C3_DegradedRow ==
    (TextTried /\ NoThroughputLine(file_content.text) /\ LatencyFound(file_content.text)) =>
        /\ ~Raised(text_result.some)
        /\ Len(text_result.some.rows) = 1
        /\ text_result.some.rows[1].op = "unknown"
        /\ IsSome(text_result.some.rows[1].lat_mean_ms)
        /\ IsNone(text_result.some.rows[1].iops)
        /\ IsNone(text_result.some.rows[1].bw_MBps)

\* C4: for a file whose content is not JSON but matches the latency or the
\* throughput pattern, parse_file returns at least one row.
C4_TextFallbackYieldsRows ==
    (/\ file_pc = "done"
     /\ file_content.readable
     /\ IsNone(file_content.json)
     /\ (~NoThroughputLine(file_content.text) \/ LatencyFound(file_content.text)))
        => Len(file_rows) >= 1

\* A job whose own parts are all mappings.
WellFormedJob(job) ==
    /\ IsDict(job)
    /\ HasKey(job, "job options") => IsDict(Get(job, "job options"))
    /\ \A op \in {"read", "write"} : HasKey(job, op) => IsDict(Get(job, op))

\* C5: a malformed job or direction of a document does not abort the
\* extraction: every direction of every well-formed job of the document has
\* its row in what parse_file returns.
C5_SiblingsSurvive ==
    (/\ file_pc = "done"
     /\ file_content.readable
     /\ IsSome(file_content.json)
     /\ IsDict(Document)
     /\ IsList(Get(Document, "jobs")))
        => \A i \in 1..Len(Get(Document, "jobs").list) :
               LET job == Get(Document, "jobs").list[i]
               IN  WellFormedJob(job) =>
                       \A op \in {"read", "write"} :
                           HasKey(job, op) =>
                               \E k \in 1..Len(file_rows) :
                                   /\ file_rows[k].op = op
                                   /\ file_rows[k].jobname = Get(job, "jobname")

\* C6: a file holding a valid JSON document without the top-level jobs list
\* is handed to the text extractor.
C6_NoJobsFallsBackToText ==
    (/\ file_pc = "done"
     /\ file_content.readable
     /\ IsSome(file_content.json)
     /\ IsDict(Document)
     /\ ~HasKey(Document, "jobs"))
        => IsSome(text_result)

\* The job and the direction each row of a document comes from, in the order
\* of the rows.
RowSources(data) ==
    Concat([i \in 1..Len(data.dict["jobs"].list) |->
               LET job == data.dict["jobs"].list[i]
               IN  SelectSeq(<<[job |-> job, data |-> Get(job, "read")],
                               [job |-> job, data |-> Get(job, "write")]>>,
                             LAMBDA d : d.data # None)])

\* The raw runtime of a job: its own, else the one of the global options.
RawRuntime(data, job) ==
    IF ~IsNone(Get(job, "runtime")) THEN Get(job, "runtime")
    ELSE IF HasKey(data, "global options") THEN Get(Get(data, "global options"), "runtime")
    ELSE None

\* The job option of a row's job.
Option(job, key) ==
    IF HasKey(job, "job options") THEN Get(Get(job, "job options"), key) ELSE None

\* C13: for a numeric raw runtime r of a job, runtime_seconds is r/1000 when
\* r > 1000 and r when r <= 1000, and no other field is rescaled: io depth,
\* job count, size, IOPS and I/O count above 1000 are reported as they are.
C13_RuntimeHeuristic ==
    (ReturnedStructured /\ file_rows # <<>>) =>
        \A k \in 1..Len(file_rows) :
            LET src == RowSources(Document)[k]
                r   == RawRuntime(Document, src.job)
            IN  /\ IsNum(r) =>
                      file_rows[k].runtime_s =
                          IF r.num > 1000 THEN Some(Rat(r.num, 1000)) ELSE Some(RInt(r.num))
                /\ IsNum(Option(src.job, "iodepth")) =>
                      file_rows[k].iodepth = Some(Option(src.job, "iodepth").num)
                /\ IsNum(Option(src.job, "numjobs")) =>
                      file_rows[k].numjobs = Some(Option(src.job, "numjobs").num)
                /\ IsNum(Option(src.job, "size")) =>
                      file_rows[k].size_bytes = Some([num |-> Option(src.job, "size").num, power |-> 0])
                /\ IsNum(Get(src.data, "iops")) =>
                      file_rows[k].iops = Some(RInt(Get(src.data, "iops").num))
                /\ IsNum(Get(src.data, "total_ios")) =>
                      file_rows[k].total_ios = Some(Get(src.data, "total_ios").num)

\* The value of a field of a row for the input v: zero for a measured zero,
\* nothing for a missing input.
ZeroOrAbsent(v, field, zero) ==
    /\ v = JNum(0) => field = Some(zero)
    /\ IsNone(v) => IsNone(field)

\* The mean of the first latency container of a direction that has one.
FirstMean(op_data) ==
    IF IsDict(Get(op_data, "clat_ns")) /\ HasKey(Get(op_data, "clat_ns"), "mean")
    THEN Get(Get(op_data, "clat_ns"), "mean")
    ELSE IF IsDict(Get(op_data, "clat_us")) /\ HasKey(Get(op_data, "clat_us"), "mean")
    THEN Get(Get(op_data, "clat_us"), "mean")
    ELSE None

\* C14: in every row, a numeric field whose input is a measured zero is
\* zero, not missing and not taken from another source, and a field whose
\* input is missing is absent, not zero: IOPS, bandwidth, I/O count, latency
\* mean, runtime, io depth, job count and size.
C14_ZeroIsNotMissing ==
    (ReturnedStructured /\ file_rows # <<>>) =>
        \A k \in 1..Len(file_rows) :
            LET src == RowSources(Document)[k]
                row == file_rows[k]
            IN  /\ ZeroOrAbsent(Get(src.data, "iops"), row.iops, RInt(0))
                /\ ZeroOrAbsent(Get(src.data, "bw"), row.bw_MBps, RInt(0))
                /\ ZeroOrAbsent(Get(src.data, "total_ios"), row.total_ios, 0)
                /\ (\A c \in {"clat", "lat_ns", "lat_us", "lat"} : IsNone(Get(src.data, c)))
                      => ZeroOrAbsent(FirstMean(src.data), row.lat_mean_ms, RInt(0))
                /\ ZeroOrAbsent(Option(src.job, "iodepth"), row.iodepth, 0)
                /\ ZeroOrAbsent(Option(src.job, "numjobs"), row.numjobs, 0)
                /\ ZeroOrAbsent(Option(src.job, "size"), row.size_bytes, [num |-> 0, power |-> 0])
                /\ Get(src.job, "runtime") = JNum(0) => row.runtime_s = Some(RInt(0))
                /\ IsNone(RawRuntime(Document, src.job)) => IsNone(row.runtime_s)

ClaimedMeanOrder == <<"clat_ns", "clat_us", "clat", "lat_ns", "lat_us", "lat">>

\* Container c of a direction is a mapping with a mean entry.
Qualifies(op_data, c) == IsDict(Get(op_data, c)) /\ HasKey(Get(op_data, c), "mean")

\* C15: the latency mean of a structured row is that of the first container,
\* in the order clat_ns, clat_us, clat, lat_ns, lat_us, lat, that is a
\* mapping with a mean entry (nanoseconds for the _ns containers,
\* microseconds for the others); it is absent when no container qualifies.
C15_FirstContainerWithMean ==
    (ReturnedStructured /\ file_rows # <<>>) =>
        \A k \in 1..Len(file_rows) :
            LET d  == RowSources(Document)[k].data
                ok == {i \in 1..Len(ClaimedMeanOrder) : Qualifies(d, ClaimedMeanOrder[i])}
            IN  IF ok = {} THEN IsNone(file_rows[k].lat_mean_ms)
                ELSE \E i \in ok :
                        /\ \A j \in ok : i <= j
                        /\ MeanFrom(d, ClaimedMeanOrder[i], file_rows[k])

\* C15 witness: clat_ns is a mapping without a mean, clat_us is missing, and
\* clat, lat_ns, lat_us and lat each have a mean: the row has the mean of
\* clat, 7500 us = 7.5 ms.
C15_Witness ==
    /\ ReturnedStructured
    /\ Len(file_rows) = 1
    /\ LET d == RowSources(Document)[1].data
       IN  /\ Get(d, "clat_ns") = JDict(<<>>)
           /\ ~HasKey(d, "clat_us")
           /\ \A c \in {"clat", "lat_ns", "lat_us", "lat"} : Qualifies(d, c)
           /\ Get(Get(d, "clat"), "mean") = JNum(7500)
    /\ file_rows[1].lat_mean_ms = Some(Rat(15, 2))

\* A structured document: a mapping with a list of jobs, each a mapping whose
\* job options and directions are mappings.
StructuredDocument(data) ==
    /\ IsDict(data)
    /\ IsList(Get(data, "jobs"))
    /\ \A i \in 1..Len(Get(data, "jobs").list) : WellFormedJob(Get(data, "jobs").list[i])
    /\ HasKey(data, "global options") => IsDict(Get(data, "global options"))

\* C26: for a structured document the extractor returns one row for each
\* pair of a job and a direction, read or write, that the job has as a key,
\* in the order of the jobs with read before write, and no other row; the
\* op of each row is that direction.
C26_OneRowPerJobDirection ==
    (/\ file_pc = "done"
     /\ file_content.readable
     /\ IsSome(file_content.json)
     /\ StructuredDocument(Document))
        => /\ IsNone(text_result)
           /\ Len(file_rows) = Len(DirectionsOf(Document))
           /\ \A k \in 1..Len(file_rows) :
                 /\ file_rows[k].op = DirectionsOf(Document)[k].op
                 /\ file_rows[k].op \in {"read", "write"}
                 /\ file_rows[k].jobname = DirectionsOf(Document)[k].jobname

\* C26 witness: a job with an empty read mapping and a write direction, then
\* a job with a write direction only: three rows, read, write, write.
C26_Witness ==
    /\ ReturnedStructured
    /\ StructuredDocument(Document)
    /\ Len(Get(Document, "jobs").list) = 2
    /\ Get(Get(Document, "jobs").list[1], "read") = JDict(<<>>)
    /\ ~HasKey(Get(Document, "jobs").list[2], "read")
    /\ Len(file_rows) = 3
    /\ <<file_rows[1].op, file_rows[2].op, file_rows[3].op>> = <<"read", "write", "write">>
    /\ <<file_rows[1].jobname, file_rows[2].jobname, file_rows[3].jobname>>
          = <<JStr(<<"j", "8">>), JStr(<<"j", "8">>), JStr(<<"j", "3">>)>>

\* The completion-latency container whose percentiles the extractor reads:
\* the first of clat_ns, clat_us, clat that the direction has.
Consulted(op_data, c) ==
    /\ ~IsNone(Get(op_data, c))
    /\ c = "clat_us" => IsNone(Get(op_data, "clat_ns"))
    /\ c = "clat" => IsNone(Get(op_data, "clat_ns")) /\ IsNone(Get(op_data, "clat_us"))

\* The percentile mapping of a container, under either of its two names.
PercentilesOf(container) ==
    IF ~IsDict(container) THEN None
    ELSE IF HasKey(container, "percentile") THEN Get(container, "percentile")
    ELSE Get(container, "percentiles")

RowPercentile(row, t) ==
    CASE t = 99 -> row.clat_p99_ms [] t = 95 -> row.clat_p95_ms [] OTHER -> row.clat_p50_ms

\* No parseable label of the mapping is nearer to t than k.
Nearest(pcts, t, k) ==
    /\ k \in DOMAIN pcts
    /\ Parseable(k)
    /\ \A o \in DOMAIN pcts : Parseable(o) => RLeq(Distance(k, t), Distance(o, t))

\* C29: when the percentile mapping read for a row has a numeric label, the
\* row has all of p50, p95 and p99, each the converted value of a label
\* nearest to its target, whatever the distance.
C29_AllThreeFromNearest ==
    (ReturnedStructured /\ file_rows # <<>>) =>
        \A k \in 1..Len(file_rows) :
            \A c \in CompletionContainers :
                LET d    == RowSources(Document)[k].data
                    pcts == PercentilesOf(Get(d, c))
                IN  (/\ Consulted(d, c)
                     /\ IsDict(pcts)
                     /\ \E key \in DOMAIN pcts.dict : Parseable(key)) =>
                        \A t \in PctTargets :
                            /\ IsSome(RowPercentile(file_rows[k], t))
                            /\ \E key \in DOMAIN pcts.dict :
                                  /\ Nearest(pcts.dict, t, key)
                                  /\ RowPercentile(file_rows[k], t)
                                        = ToMs(c, _to_float(pcts.dict[key]))

\* C29 witness: the mapping of clat_us has the label "50.000000" and a label
\* that is no number: p50, p95 and p99 are all the value of "50.000000",
\* 4000 us = 4 ms.
C29_Witness ==
    /\ ReturnedStructured
    /\ Len(file_rows) = 1
    /\ LET d == RowSources(Document)[1].data
       IN  /\ ~HasKey(d, "clat_ns")
           /\ IsDict(PercentilesOf(Get(d, "clat_us")))
           /\ DOMAIN PercentilesOf(Get(d, "clat_us")).dict = {Key50p6, KeyText}
    /\ file_rows[1].clat_p50_ms = Some(RInt(4))
    /\ file_rows[1].clat_p95_ms = Some(RInt(4))
    /\ file_rows[1].clat_p99_ms = Some(RInt(4))

(***************************************************************************)
(* Claims about the naming conventions                                     *)
(***************************************************************************)
\* The first segment of the relative path that matches the task convention;
\* None when no segment matches.
FirstTaskSegment(path) ==
    IF \E i \in 1..Len(path.rel) : TaskMatch(path.rel[i])
    THEN Some(path.rel[CHOOSE i \in 1..Len(path.rel) :
                          /\ TaskMatch(path.rel[i])
                          /\ \A j \in 1..(i - 1) : ~TaskMatch(path.rel[j])])
    ELSE None

\* C18 as stated: the task is the first segment that matches the task
\* convention, else the first segment of the relative path; it is absent
\* only when the path has no segment.
C18_FirstSegmentFallback ==
    name_pc = "done" =>
        name_task = IF IsSome(FirstTaskSegment(name_path)) THEN FirstTaskSegment(name_path)
                    ELSE IF Len(name_path.rel) > 0 THEN Some(name_path.rel[1])
                    ELSE None

\* The task by the conventions: the first matching segment, else the first
\* directory of the relative path; None for a file directly under the root.
TaskByPosition(path) ==
    IF IsSome(FirstTaskSegment(path)) THEN FirstTaskSegment(path)
    ELSE IF Len(path.rel) > 1 THEN Some(path.rel[1])
    ELSE None

\* C18 amended: the task is the first segment (directory or file name) that
\* matches the task convention; else it is the first directory of the
\* relative path; a file directly under the scan root whose name does not
\* match has no task.
C18_FirstDirectoryFallback ==
    name_pc = "done" => name_task = TaskByPosition(name_path)

\* C18 witness: the file o.json directly under the scan root has no task.
C18_Witness ==
    /\ name_pc = "done"
    /\ name_path.rel = <<JsonName>>
    /\ IsNone(name_task)

NoRunnerSegment(path) == \A i \in 1..Len(path.rel) : ~RunnerMatch(path.rel[i])

NoTimestamp(path) == TimestampHits(path.root \o path.rel) = {}

\* C19 as stated: an identifier no segment of the path matches is absent in
\* every row of the file.
C19_UnmatchedIsAbsent ==
    file_pc = "done" =>
        \A k \in 1..Len(file_rows) :
            /\ IsNone(FirstTaskSegment(file_path)) => IsNone(file_rows[k].task)
            /\ NoRunnerSegment(file_path) => IsNone(file_rows[k].runner)
            /\ NoTimestamp(file_path) => IsNone(file_rows[k].timestamp)

\* C19 amended: a runner or a timestamp that no segment of the path matches
\* is absent in every row of the file; a task that no segment matches is the
\* first directory of the relative path, and absent only for a file directly
\* under the scan root.
C19_OnlyTaskByPosition ==
    file_pc = "done" =>
        \A k \in 1..Len(file_rows) :
            /\ file_rows[k].task = TaskByPosition(file_path)
            /\ NoRunnerSegment(file_path) => IsNone(file_rows[k].runner)
            /\ NoTimestamp(file_path) => IsNone(file_rows[k].timestamp)

\* C19 witness: the rows of d/o.json have the task d, no runner and no
\* timestamp.
C19_Witness ==
    /\ file_pc = "done"
    /\ file_path.rel = << <<"d">>, JsonName>>
    /\ file_rows # <<>>
    /\ \A k \in 1..Len(file_rows) :
          /\ file_rows[k].task = Some(<<"d">>)
          /\ IsNone(file_rows[k].runner)
          /\ IsNone(file_rows[k].timestamp)

(***************************************************************************)
(* Claims about the sheet names                                            *)
(***************************************************************************)
ValidSheetName(s) ==
    /\ Len(s) <= 31
    /\ \A i \in 1..Len(s) : s[i] \notin {":", "\\", "/", "?", "*", "[", "]"}

ReturnedNamesValid ==
    /\ \A i, j \in 1..Len(sheet_returned) : i # j => sheet_returned[i] # sheet_returned[j]
    /\ \A i \in 1..Len(sheet_returned) :
          /\ ValidSheetName(sheet_returned[i])
          /\ sheet_returned[i] \in sheet_used

\* C30: the names returned by the calls of sanitize_sheet_name that share a
\* registry are pairwise distinct, at most 31 characters long and free of
\* the characters : \ / ? * [ ], each is recorded in the registry, and each
\* call returns.
C30_DistinctValidNames ==
    /\ []ReturnedNamesValid
    /\ (sheet_pc = "loop") ~> (sheet_pc = "ready")

\* C30 witness: after 29 x's with _2 and 31 x's, the name of 32 x's is cut
\* to 31, its candidate with _2 is taken, and it is returned as 29 x's
\* with _3.
C30_Witness ==
    /\ sheet_pc = "ready"
    /\ sheet_returned = <<Xs(29) \o <<"_", "2">>, Xs(31), Xs(29) \o <<"_", "3">>>>

(***************************************************************************)
(* Claims about the per-task rollup                                        *)
(***************************************************************************)
\* The rows of the table in the group of a summary row.
GroupOf(s) ==
    {r \in df : r.task = Some(s.task) /\ r.access_pattern = Some(s.access_pattern)}

RunnersOf(rows) == {r.runner : r \in rows}

RECURSIVE Total(_, _)
Total(rows, col) ==
    IF rows = {} THEN RInt(0)
    ELSE LET r == CHOOSE x \in rows : TRUE
         IN  RAdd(r[col].some, Total(rows \ {r}, col))

\* The sum over the runners of the mean of the rows of each runner.
RECURSIVE SumOfRunnerMeans(_, _, _)
SumOfRunnerMeans(rows, runners, col) ==
    IF runners = {} THEN RInt(0)
    ELSE LET ru   == CHOOSE x \in runners : TRUE
             mine == {r \in rows : r.runner = ru}
         IN  RAdd(RDivInt(Total(mine, col), Cardinality(mine)),
                  SumOfRunnerMeans(rows, runners \ {ru}, col))

Throughput(s, op, col) ==
    IF col = "iops" THEN (IF op = "read" THEN s.iops_read ELSE s.iops_write)
    ELSE (IF op = "read" THEN s.bw_MBps_read ELSE s.bw_MBps_write)

\* C1: in the per-task rollup, when the rows of a group and direction carry
\* a runner, the IOPS and the bandwidth of the group and direction are the
\* sum over its distinct runners of the mean over the rows of that runner.
C1_RunnerNormalizedThroughput ==
    agg_pc = "done" =>
        \A k \in 1..Len(summary) :
            \A op \in {"read", "write"} :
                LET rows == {r \in GroupOf(summary[k]) : r.op = op}
                IN  (\A r \in rows : IsSome(r.runner) /\ IsSome(r.iops) /\ IsSome(r.bw_MBps)) =>
                        \A col \in {"iops", "bw_MBps"} :
                            Throughput(summary[k], op, col)
                                = SumOfRunnerMeans(rows, RunnersOf(rows), col)

\* Two runners with attempts of 1000, 1100 and 900 IOPS each give 2000.
C1_Witness ==
    /\ agg_pc = "done"
    /\ \E k \in 1..Len(summary) :
          LET rows == {r \in GroupOf(summary[k]) : r.op = "read"}
          IN  /\ Cardinality(rows) = 6
              /\ RunnersOf(rows) = {Some(RunnerA), Some(RunnerB)}
              /\ \A ru \in RunnersOf(rows) :
                    {r.iops : r \in {x \in rows : x.runner = ru}}
                        = {Some(RInt(1000)), Some(RInt(1100)), Some(RInt(900))}
              /\ summary[k].iops_read = RInt(2000)
              /\ summary[k].bw_MBps_read = RInt(20)

\* C7: runs_count of a summary row is the number of distinct runners with a
\* row in the group of the summary row (task with access pattern); when no
\* row of the table has a runner it is the number of rows of the group.
C7_RunsCountOfOwnGroup ==
    agg_pc = "done" =>
        \A k \in 1..Len(summary) :
            summary[k].runs_count =
                IF \E r \in df : IsSome(r.runner)
                THEN Cardinality({r.runner : r \in {x \in GroupOf(summary[k]) : IsSome(x.runner)}})
                ELSE Cardinality(GroupOf(summary[k]))

\* The sum over the rows of latency * total_ios.
RECURSIVE WeightedTotal(_)
WeightedTotal(rows) ==
    IF rows = {} THEN RInt(0)
    ELSE LET r == CHOOSE x \in rows : TRUE
         IN  RAdd(RMul(r.lat_mean_ms.some, RInt(r.total_ios.some)),
                  WeightedTotal(rows \ {r}))

\* The sum over the rows of total_ios.
RECURSIVE IosTotal(_)
IosTotal(rows) ==
    IF rows = {} THEN 0
    ELSE LET r == CHOOSE x \in rows : TRUE
         IN  r.total_ios.some + IosTotal(rows \ {r})

Measurable(rows) ==
    /\ \A r \in rows : IsSome(r.lat_mean_ms) /\ IsSome(r.total_ios)
    /\ IosTotal(rows) > 0

CellsOf(rows) == {[op |-> r.op, runner |-> r.runner] : r \in rows}

\* The sum over the cells of (mean latency of the attempts of the cell) *
\* (sum of total_ios of the attempts of the cell).
RECURSIVE CellWeightedTotal(_, _)
CellWeightedTotal(rows, cells) ==
    IF cells = {} THEN RInt(0)
    ELSE LET c    == CHOOSE x \in cells : TRUE
             mine == {r \in rows : r.op = c.op /\ r.runner = c.runner}
         IN  RAdd(RMul(RDivInt(Total(mine, "lat_mean_ms"), Cardinality(mine)),
                       RInt(IosTotal(mine))),
                  CellWeightedTotal(rows, cells \ {c}))

SummaryPercentile(s, col) ==
    IF col = "clat_p99_ms" THEN s.latency_p99_ms ELSE s.latency_p95_ms

\* The sum over the directions of the mean over the runners of the mean of
\* the rows of each runner.
RECURSIVE SumOfDirectionMeans(_, _, _)
SumOfDirectionMeans(rows, ops, col) ==
    IF ops = {} THEN RInt(0)
    ELSE LET op   == CHOOSE x \in ops : TRUE
             mine == {r \in rows : r.op = op}
         IN  RAdd(RDivInt(SumOfRunnerMeans(mine, RunnersOf(mine), col),
                          Cardinality(RunnersOf(mine))),
                  SumOfDirectionMeans(rows, ops \ {op}, col))

\* C17: a latency percentile column of a summary row is, for each direction
\* of the group of the row, the mean over the runners of that group of the
\* mean over the attempts of each runner (averaged over the directions);
\* rows of another access pattern of the task do not enter the value.
C17_PercentileOfOwnGroup ==
    agg_pc = "done" =>
        \A k \in 1..Len(summary) :
            (\A r \in GroupOf(summary[k]) :
                 IsSome(r.runner) /\ IsSome(r.clat_p99_ms) /\ IsSome(r.clat_p95_ms)) =>
                \A col \in {"clat_p99_ms", "clat_p95_ms"} :
                    SummaryPercentile(summary[k], col)
                        = Some(RDivInt(SumOfDirectionMeans(GroupOf(summary[k]),
                                           {r.op : r \in GroupOf(summary[k])}, col),
                                       Cardinality({r.op : r \in GroupOf(summary[k])})))

\* C20: the rows without a task are rolled up as a group of their own: the
\* summary has one row for each task with access pattern of the table, the
\* absent task included, and the throughput of a named group does not
\* change when rows without a task are removed from the table.
C20_AbsentTaskIsAGroup ==
    agg_pc = "done" =>
        /\ Len(summary) = Cardinality({<<r.task, r.access_pattern>> : r \in df})
        /\ \A k \in 1..Len(summary) :
              \E s \in {export_to_excel({r \in df : IsSome(r.task)})} :
                  \E j \in 1..Len(s) :
                      /\ s[j].task = summary[k].task
                      /\ s[j].access_pattern = summary[k].access_pattern
                      /\ s[j].iops_read = summary[k].iops_read
                      /\ s[j].iops_write = summary[k].iops_write

\* The latencies of the rows of a group.
LatenciesOf(rows) == {r.lat_mean_ms.some : r \in {x \in rows : IsSome(x.lat_mean_ms)}}

\* C27: a weighted mean latency that is present lies between the smallest
\* and the largest lat_mean_ms of the rows of its group, and the rows
\* without a latency contribute no weight: it is the value the group has
\* without them.
C27_WeightedMeanWithinRange ==
    agg_pc = "done" =>
        \A k \in 1..Len(summary) :
            IsSome(summary[k].latency_mean_ms) =>
                /\ \E lo, hi \in LatenciesOf(GroupOf(summary[k])) :
                      /\ RLeq(lo, summary[k].latency_mean_ms.some)
                      /\ RLeq(summary[k].latency_mean_ms.some, hi)
                /\ summary[k].latency_mean_ms
                      = LatencyMean({r \in df : IsSome(r.lat_mean_ms)},
                                    [task |-> summary[k].task,
                                     access_pattern |-> summary[k].access_pattern])

PerRunner(s, op, col) ==
    IF col = "iops"
    THEN (IF op = "read" THEN s.iops_read_per_runner ELSE s.iops_write_per_runner)
    ELSE (IF op = "read" THEN s.bw_MBps_read_per_runner ELSE s.bw_MBps_write_per_runner)

\* C28: for a group and direction whose rows carry a runner, the per-runner
\* average column is the mean, over the runners with a row of that direction
\* in the group, of the mean throughput of each runner, whatever the other
\* rows of the table are.
C28_PerRunnerAverage ==
    agg_pc = "done" =>
        \A k \in 1..Len(summary) :
            \A op \in {"read", "write"} :
                LET rows == {r \in GroupOf(summary[k]) : r.op = op}
                IN  (/\ rows # {}
                     /\ \A r \in rows : IsSome(r.runner) /\ IsSome(r.iops) /\ IsSome(r.bw_MBps)) =>
                        \A col \in {"iops", "bw_MBps"} :
                            PerRunner(summary[k], op, col)
                                = Some(RDivInt(SumOfRunnerMeans(rows, RunnersOf(rows), col),
                                               Cardinality(RunnersOf(rows))))

(***************************************************************************)
(* Claims about main                                                       *)
(***************************************************************************)
\* The rows a file gives when it is the only file of the batch.
Alone(f) == parse_file(f.path, f.content).rows

\* A file that cannot be read, or that neither parser accepts.
Failing(f) ==
    \/ ~f.content.readable
    \/ /\ Raised(LoadsAndParse(f.path, f.content, compute_task_name(f.path), compute_runner_name(f.path)))
       /\ Raised(parse_fio_text(f.content.text, f.path, compute_task_name(f.path), compute_runner_name(f.path)))

Contribution(f) == IF Failing(f) THEN <<>> ELSE Alone(f)

RECURSIVE Merged(_, _)
Merged(files, n) ==
    IF n = 0 THEN <<>> ELSE Merged(files, n - 1) \o Contribution(files[n])

\* C21: no exception leaves parse_file, so the loop of main reaches the last
\* file of the batch; a file that cannot be read or parsed adds no row, and
\* every other file adds exactly the rows it gives when processed alone.
C21_FailingFileIsSkipped ==
    /\ exit_status # Some(1)
    /\ main_pc = "parse" => all_rows = Merged(main_files, main_next - 1)
    /\ (main_pc = "done" /\ main_files # <<>>) =>
          /\ main_next = Len(main_files) + 1
          /\ all_rows = Merged(main_files, Len(main_files))

\* A batch where a failing file comes before a file that gives rows.
C21_Witness ==
    /\ main_pc = "done"
    /\ \E i, j \in 1..Len(main_files) :
          i < j /\ Failing(main_files[i]) /\ Alone(main_files[j]) # <<>>
    /\ \E j \in 1..Len(main_files) : ~main_files[j].content.readable
    /\ all_rows # <<>>

Perms(n) == {p \in [1..n -> 1..n] : \A i, j \in 1..n : i # j => p[i] # p[j]}

RECURSIVE Extracted(_, _)
Extracted(files, n) ==
    IF n = 0 THEN <<>> ELSE Extracted(files, n - 1) \o Alone(files[n])

\* The table main builds from a batch.
TableOf(files) == rows_to_dataframe(Extracted(files, Len(files)))

PassesAgree ==
    \A i, j \in 1..Len(pass_summaries) : pass_summaries[i] = pass_summaries[j]

====
